---- MODULE Spec2Model ----
(***************************************************************************)
(* Playground organizer: a directory tree whose top-level entries are      *)
(* classified by recency of use and by a name-derived theme, and then      *)
(* moved into time-bucket folders or symlinked into bucket/theme folders.  *)
(*                                                                         *)
(* Three bodies of code are modelled:                                      *)
(*   B  backend/src/playground_organizer/playground_organizer.py (the      *)
(*      engine behind the web server and its own CLI; src/src/... is an    *)
(*      older copy with the same create_symlink/organize_* code),          *)
(*   P  playground-organizer.py (the stand-alone CLI engine),              *)
(*   W  backend/start_web_server.py (the HTTP handlers over B).            *)
(*                                                                         *)
(* Names are TLA+ strings; Chars gives a string's characters so that       *)
(* lower(), startswith(), suffix and `keyword in name` are computed.       *)
(* Paths are sequences of names below the organized root (Root = <<>>).    *)
(* Times are integer seconds.                                              *)
(***************************************************************************)
EXTENDS Integers, Sequences, FiniteSets, TLC

VARIABLES
    fs,          \* the tree: existing path -> node
    clock,       \* time.time()
    config,      \* B: self.config (the in-memory JSON document)
    thresholds,  \* B: self.thresholds
    configFile,  \* content of <root>/.playground-config.json, or Absent
    pc,          \* "idle", or the executing loop that is under way
    run,         \* the local variables of the run under way
    last,        \* the most recent completed call: what it was, what it returned
    prev,        \* the completed call before that
    budget,      \* the number of calls that may still be made
    probe        \* application of a pure classifier: inputs and result

vars == <<fs, clock, config, thresholds, configFile, pc, run, last, prev, budget, probe>>

----------------------------------------------------------------------------
(* Bounds of the model *)

\* Seconds the environment's clock may advance in all during a behaviour.
MaxTicks == 1

\* Calls of the engines and requests to the web server during a behaviour.
MaxCalls == 1

\* Planning calls (dry runs) and configuration updates made one after the other.
MaxPlans == 2

----------------------------------------------------------------------------
(* Strings *)

DefaultThemeMappingsB ==
    << [theme |-> "ai", keywords |-> <<"gpt", "llm", "claude", "openai", "anthropic", "ml", "ai-", "neural", "model", "transformer">>],
       [theme |-> "productivity", keywords |-> <<"todo", "task", "calendar", "notes", "productivity", "planner", "organize">>],
       [theme |-> "stocks", keywords |-> <<"stock", "trading", "finance", "market", "ticker", "portfolio", "investment">>],
       [theme |-> "development", keywords |-> <<"dev", "code", "programming", "api", "sdk", "github", "git">>],
       [theme |-> "data", keywords |-> <<"data", "database", "sql", "analytics", "etl", "pipeline">>],
       [theme |-> "media", keywords |-> <<"video", "audio", "image", "media", "photo", "music", "movie">>],
       [theme |-> "tools", keywords |-> <<"tool", "utility", "helper", "script", "automation">>],
       [theme |-> "learning", keywords |-> <<"course", "tutorial", "learn", "education", "study", "book">>],
       [theme |-> "misc", keywords |-> <<>>] >>

DefaultThemeMappingsP ==
    << [theme |-> "ai", keywords |-> <<"gpt", "llm", "claude", "openai", "anthropic", "ai", "ml", "machine-learning">>],
       [theme |-> "productivity", keywords |-> <<"todo", "task", "calendar", "notes", "productivity", "organizer">>],
       [theme |-> "stocks", keywords |-> <<"stock", "trading", "finance", "market", "crypto", "investment">>],
       [theme |-> "development", keywords |-> <<"dev", "code", "programming", "api", "developer", "development">>],
       [theme |-> "data", keywords |-> <<"data", "database", "sql", "analytics", "pipeline", "etl">>],
       [theme |-> "media", keywords |-> <<"video", "audio", "image", "media", "photo", "music">>],
       [theme |-> "tools", keywords |-> <<"tool", "utility", "helper", "script", "automation">>],
       [theme |-> "learning", keywords |-> <<"course", "tutorial", "learn", "education", "study", "training">>],
       [theme |-> "misc", keywords |-> <<>>] >>

Chars ==
       (".DS_Store" :> <<".", "D", "S", "_", "S", "t", "o", "r", "e">>)
    @@ (".avi" :> <<".", "a", "v", "i">>)
    @@ (".c" :> <<".", "c">>)
    @@ (".cache" :> <<".", "c", "a", "c", "h", "e">>)
    @@ (".cpp" :> <<".", "c", "p", "p">>)
    @@ (".csv" :> <<".", "c", "s", "v">>)
    @@ (".db" :> <<".", "d", "b">>)
    @@ (".doc" :> <<".", "d", "o", "c">>)
    @@ (".dockerignore" :> <<".", "d", "o", "c", "k", "e", "r", "i", "g", "n", "o", "r", "e">>)
    @@ (".docx" :> <<".", "d", "o", "c", "x">>)
    @@ (".editorconfig" :> <<".", "e", "d", "i", "t", "o", "r", "c", "o", "n", "f", "i", "g">>)
    @@ (".env" :> <<".", "e", "n", "v">>)
    @@ (".env.example" :> <<".", "e", "n", "v", ".", "e", "x", "a", "m", "p", "l", "e">>)
    @@ (".eslintrc" :> <<".", "e", "s", "l", "i", "n", "t", "r", "c">>)
    @@ (".gif" :> <<".", "g", "i", "f">>)
    @@ (".git" :> <<".", "g", "i", "t">>)
    @@ (".gitattributes" :> <<".", "g", "i", "t", "a", "t", "t", "r", "i", "b", "u", "t", "e", "s">>)
    @@ (".gitignore" :> <<".", "g", "i", "t", "i", "g", "n", "o", "r", "e">>)
    @@ (".go" :> <<".", "g", "o">>)
    @@ (".hidden" :> <<".", "h", "i", "d", "d", "e", "n">>)
    @@ (".java" :> <<".", "j", "a", "v", "a">>)
    @@ (".jpeg" :> <<".", "j", "p", "e", "g">>)
    @@ (".jpg" :> <<".", "j", "p", "g">>)
    @@ (".js" :> <<".", "j", "s">>)
    @@ (".json" :> <<".", "j", "s", "o", "n">>)
    @@ (".jsx" :> <<".", "j", "s", "x">>)
    @@ (".md" :> <<".", "m", "d">>)
    @@ (".mov" :> <<".", "m", "o", "v">>)
    @@ (".mp3" :> <<".", "m", "p", "3">>)
    @@ (".mp4" :> <<".", "m", "p", "4">>)
    @@ (".npmignore" :> <<".", "n", "p", "m", "i", "g", "n", "o", "r", "e">>)
    @@ (".parquet" :> <<".", "p", "a", "r", "q", "u", "e", "t">>)
    @@ (".pdf" :> <<".", "p", "d", "f">>)
    @@ (".php" :> <<".", "p", "h", "p">>)
    @@ (".png" :> <<".", "p", "n", "g">>)
    @@ (".prettierrc" :> <<".", "p", "r", "e", "t", "t", "i", "e", "r", "r", "c">>)
    @@ (".py" :> <<".", "p", "y">>)
    @@ (".rb" :> <<".", "r", "b">>)
    @@ (".rs" :> <<".", "r", "s">>)
    @@ (".sql" :> <<".", "s", "q", "l">>)
    @@ (".sqlite" :> <<".", "s", "q", "l", "i", "t", "e">>)
    @@ (".ts" :> <<".", "t", "s">>)
    @@ (".tsx" :> <<".", "t", "s", "x">>)
    @@ (".txt" :> <<".", "t", "x", "t">>)
    @@ (".venv" :> <<".", "v", "e", "n", "v">>)
    @@ (".wav" :> <<".", "w", "a", "v">>)
    @@ ("AI-dev" :> <<"A", "I", "-", "d", "e", "v">>)
    @@ ("GPT-plan.md" :> <<"G", "P", "T", "-", "p", "l", "a", "n", ".", "m", "d">>)
    @@ ("__pycache__" :> <<"_", "_", "p", "y", "c", "a", "c", "h", "e", "_", "_">>)
    @@ ("ai" :> <<"a", "i">>)
    @@ ("ai-" :> <<"a", "i", "-">>)
    @@ ("ai-project" :> <<"a", "i", "-", "p", "r", "o", "j", "e", "c", "t">>)
    @@ ("analytics" :> <<"a", "n", "a", "l", "y", "t", "i", "c", "s">>)
    @@ ("anthropic" :> <<"a", "n", "t", "h", "r", "o", "p", "i", "c">>)
    @@ ("api" :> <<"a", "p", "i">>)
    @@ ("archive" :> <<"a", "r", "c", "h", "i", "v", "e">>)
    @@ ("audio" :> <<"a", "u", "d", "i", "o">>)
    @@ ("automation" :> <<"a", "u", "t", "o", "m", "a", "t", "i", "o", "n">>)
    @@ ("book" :> <<"b", "o", "o", "k">>)
    @@ ("build" :> <<"b", "u", "i", "l", "d">>)
    @@ ("by-theme" :> <<"b", "y", "-", "t", "h", "e", "m", "e">>)
    @@ ("by-time" :> <<"b", "y", "-", "t", "i", "m", "e">>)
    @@ ("calendar" :> <<"c", "a", "l", "e", "n", "d", "a", "r">>)
    @@ ("claude" :> <<"c", "l", "a", "u", "d", "e">>)
    @@ ("code" :> <<"c", "o", "d", "e">>)
    @@ ("course" :> <<"c", "o", "u", "r", "s", "e">>)
    @@ ("crypto" :> <<"c", "r", "y", "p", "t", "o">>)
    @@ ("current" :> <<"c", "u", "r", "r", "e", "n", "t">>)
    @@ ("data" :> <<"d", "a", "t", "a">>)
    @@ ("data-pipeline" :> <<"d", "a", "t", "a", "-", "p", "i", "p", "e", "l", "i", "n", "e">>)
    @@ ("database" :> <<"d", "a", "t", "a", "b", "a", "s", "e">>)
    @@ ("datasets" :> <<"d", "a", "t", "a", "s", "e", "t", "s">>)
    @@ ("demo" :> <<"d", "e", "m", "o">>)
    @@ ("dev" :> <<"d", "e", "v">>)
    @@ ("dev-tools" :> <<"d", "e", "v", "-", "t", "o", "o", "l", "s">>)
    @@ ("developer" :> <<"d", "e", "v", "e", "l", "o", "p", "e", "r">>)
    @@ ("development" :> <<"d", "e", "v", "e", "l", "o", "p", "m", "e", "n", "t">>)
    @@ ("dist" :> <<"d", "i", "s", "t">>)
    @@ ("education" :> <<"e", "d", "u", "c", "a", "t", "i", "o", "n">>)
    @@ ("env" :> <<"e", "n", "v">>)
    @@ ("etl" :> <<"e", "t", "l">>)
    @@ ("example" :> <<"e", "x", "a", "m", "p", "l", "e">>)
    @@ ("finance" :> <<"f", "i", "n", "a", "n", "c", "e">>)
    @@ ("git" :> <<"g", "i", "t">>)
    @@ ("github" :> <<"g", "i", "t", "h", "u", "b">>)
    @@ ("gpt" :> <<"g", "p", "t">>)
    @@ ("gpt-experiment" :> <<"g", "p", "t", "-", "e", "x", "p", "e", "r", "i", "m", "e", "n", "t">>)
    @@ ("helper" :> <<"h", "e", "l", "p", "e", "r">>)
    @@ ("hugging_face" :> <<"h", "u", "g", "g", "i", "n", "g", "_", "f", "a", "c", "e">>)
    @@ ("image" :> <<"i", "m", "a", "g", "e">>)
    @@ ("investment" :> <<"i", "n", "v", "e", "s", "t", "m", "e", "n", "t">>)
    @@ ("learn" :> <<"l", "e", "a", "r", "n">>)
    @@ ("learning" :> <<"l", "e", "a", "r", "n", "i", "n", "g">>)
    @@ ("learning-course" :> <<"l", "e", "a", "r", "n", "i", "n", "g", "-", "c", "o", "u", "r", "s", "e">>)
    @@ ("llm" :> <<"l", "l", "m">>)
    @@ ("machine-learning" :> <<"m", "a", "c", "h", "i", "n", "e", "-", "l", "e", "a", "r", "n", "i", "n", "g">>)
    @@ ("market" :> <<"m", "a", "r", "k", "e", "t">>)
    @@ ("media" :> <<"m", "e", "d", "i", "a">>)
    @@ ("misc" :> <<"m", "i", "s", "c">>)
    @@ ("ml" :> <<"m", "l">>)
    @@ ("model" :> <<"m", "o", "d", "e", "l">>)
    @@ ("models" :> <<"m", "o", "d", "e", "l", "s">>)
    @@ ("movie" :> <<"m", "o", "v", "i", "e">>)
    @@ ("music" :> <<"m", "u", "s", "i", "c">>)
    @@ ("neural" :> <<"n", "e", "u", "r", "a", "l">>)
    @@ ("node_modules" :> <<"n", "o", "d", "e", "_", "m", "o", "d", "u", "l", "e", "s">>)
    @@ ("notes" :> <<"n", "o", "t", "e", "s">>)
    @@ ("old" :> <<"o", "l", "d">>)
    @@ ("openai" :> <<"o", "p", "e", "n", "a", "i">>)
    @@ ("organize" :> <<"o", "r", "g", "a", "n", "i", "z", "e">>)
    @@ ("organized" :> <<"o", "r", "g", "a", "n", "i", "z", "e", "d">>)
    @@ ("organizer" :> <<"o", "r", "g", "a", "n", "i", "z", "e", "r">>)
    @@ ("photo" :> <<"p", "h", "o", "t", "o">>)
    @@ ("pipeline" :> <<"p", "i", "p", "e", "l", "i", "n", "e">>)
    @@ ("planner" :> <<"p", "l", "a", "n", "n", "e", "r">>)
    @@ ("portfolio" :> <<"p", "o", "r", "t", "f", "o", "l", "i", "o">>)
    @@ ("productivity" :> <<"p", "r", "o", "d", "u", "c", "t", "i", "v", "i", "t", "y">>)
    @@ ("programming" :> <<"p", "r", "o", "g", "r", "a", "m", "m", "i", "n", "g">>)
    @@ ("random-stuff" :> <<"r", "a", "n", "d", "o", "m", "-", "s", "t", "u", "f", "f">>)
    @@ ("recent" :> <<"r", "e", "c", "e", "n", "t">>)
    @@ ("script" :> <<"s", "c", "r", "i", "p", "t">>)
    @@ ("sdk" :> <<"s", "d", "k">>)
    @@ ("sql" :> <<"s", "q", "l">>)
    @@ ("stock" :> <<"s", "t", "o", "c", "k">>)
    @@ ("stock-tracker" :> <<"s", "t", "o", "c", "k", "-", "t", "r", "a", "c", "k", "e", "r">>)
    @@ ("stocks" :> <<"s", "t", "o", "c", "k", "s">>)
    @@ ("study" :> <<"s", "t", "u", "d", "y">>)
    @@ ("stuff" :> <<"s", "t", "u", "f", "f">>)
    @@ ("task" :> <<"t", "a", "s", "k">>)
    @@ ("test" :> <<"t", "e", "s", "t">>)
    @@ ("ticker" :> <<"t", "i", "c", "k", "e", "r">>)
    @@ ("todo" :> <<"t", "o", "d", "o">>)
    @@ ("todo-app" :> <<"t", "o", "d", "o", "-", "a", "p", "p">>)
    @@ ("todo-ai-dev" :> <<"t", "o", "d", "o", "-", "a", "i", "-", "d", "e", "v">>)
    @@ ("todo.py" :> <<"t", "o", "d", "o", ".", "p", "y">>)
    @@ ("model-data.json" :> <<"m", "o", "d", "e", "l", "-", "d", "a", "t", "a", ".", "j", "s", "o", "n">>)
    @@ ("dev-demo.MP4" :> <<"d", "e", "v", "-", "d", "e", "m", "o", ".", "M", "P", "4">>)
    @@ ("gpt-run.log" :> <<"g", "p", "t", "-", "r", "u", "n", ".", "l", "o", "g">>)
    @@ ("tool" :> <<"t", "o", "o", "l">>)
    @@ ("tools" :> <<"t", "o", "o", "l", "s">>)
    @@ ("trading" :> <<"t", "r", "a", "d", "i", "n", "g">>)
    @@ ("training" :> <<"t", "r", "a", "i", "n", "i", "n", "g">>)
    @@ ("transformer" :> <<"t", "r", "a", "n", "s", "f", "o", "r", "m", "e", "r">>)
    @@ ("tutorial" :> <<"t", "u", "t", "o", "r", "i", "a", "l">>)
    @@ ("utility" :> <<"u", "t", "i", "l", "i", "t", "y">>)
    @@ ("venv" :> <<"v", "e", "n", "v">>)
    @@ ("video" :> <<"v", "i", "d", "e", "o">>)
    @@ ("video-editor" :> <<"v", "i", "d", "e", "o", "-", "e", "d", "i", "t", "o", "r">>)

UpperLower ==
    ("A" :> "a") @@ ("B" :> "b") @@ ("C" :> "c") @@ ("D" :> "d") @@ ("E" :> "e")
    @@ ("F" :> "f") @@ ("G" :> "g") @@ ("H" :> "h") @@ ("I" :> "i") @@ ("J" :> "j")
    @@ ("K" :> "k") @@ ("L" :> "l") @@ ("M" :> "m") @@ ("N" :> "n") @@ ("O" :> "o")
    @@ ("P" :> "p") @@ ("Q" :> "q") @@ ("R" :> "r") @@ ("S" :> "s") @@ ("T" :> "t")
    @@ ("U" :> "u") @@ ("V" :> "v") @@ ("W" :> "w") @@ ("X" :> "x") @@ ("Y" :> "y")
    @@ ("Z" :> "z")

\* str.lower(), on a string's characters
Lower(cs) ==
    [i \in 1..Len(cs) |-> IF cs[i] \in DOMAIN UpperLower THEN UpperLower[cs[i]] ELSE cs[i]]

\* `needle in hay` on characters (the empty needle occurs in every string)
Contains(hay, needle) ==
    \E i \in 0..(Len(hay) - Len(needle)) : SubSeq(hay, i + 1, i + Len(needle)) = needle

\* str.startswith('.')
StartsWithDot(name) ==
    Len(Chars[name]) > 0 /\ Chars[name][1] = "."

\* pathlib's PurePath.suffix: from the last dot, when that dot is neither the
\* first nor the last character of the name
Suffix(cs) ==
    LET dots == {i \in 1..Len(cs) : cs[i] = "."} IN
    IF dots = {} THEN <<>>
    ELSE LET i == CHOOSE k \in dots : \A j \in dots : j <= k IN
         IF 1 < i /\ i < Len(cs) THEN SubSeq(cs, i, Len(cs)) ELSE <<>>

\* the elements of a sequence
Range(s) == {s[i] : i \in 1..Len(s)}

\* the element of a set of one element; The({F(x) : x \in {e}}) is F(e)
The(S) == CHOOSE x \in S : TRUE

----------------------------------------------------------------------------
(* The file system *)

Root == <<>>
Parent(p) == SubSeq(p, 1, Len(p) - 1)
Name(p) == p[Len(p)]
Join(p, n) == Append(p, n)
IsPrefix(p, q) == Len(p) <= Len(q) /\ SubSeq(q, 1, Len(p)) = p

FileNode(id, at, mt) == [kind |-> "file", id |-> id, atime |-> at, mtime |-> mt, tgt |-> <<>>]
DirNode(id, at, mt) == [kind |-> "dir", id |-> id, atime |-> at, mtime |-> mt, tgt |-> <<>>]
LinkNode(tgt, now) == [kind |-> "link", id |-> 0, atime |-> now, mtime |-> now, tgt |-> tgt]

\* os.path.lexists
Lexists(f, p) == p \in DOMAIN f
\* Path.is_symlink
IsSymlink(f, p) == Lexists(f, p) /\ f[p].kind = "link"
\* the node a path resolves to (link targets are entries of the root, never links)
Resolve(f, p) == IF IsSymlink(f, p) THEN f[p].tgt ELSE p
\* Path.exists: follows a symlink, so a dangling link does not exist
Exists(f, p) == Lexists(f, p) /\ Lexists(f, Resolve(f, p))
\* Path.is_dir, Path.is_file: follow a symlink
IsDir(f, p) == Exists(f, p) /\ f[Resolve(f, p)].kind = "dir"
IsFile(f, p) == Exists(f, p) /\ f[Resolve(f, p)].kind = "file"

Put(f, p, n) == [q \in (DOMAIN f) \cup {p} |-> IF q = p THEN n ELSE f[q]]
Del(f, p) == [q \in (DOMAIN f) \ {p} |-> f[q]]
\* adding or removing a name in a directory sets the directory's mtime
Touch(f, p, now) == IF p \in DOMAIN f THEN [f EXCEPT ![p].mtime = now] ELSE f

\* Path.mkdir(parents, exist_ok): os.mkdir, and on FileNotFoundError with parents
\* the parent first; any other OSError is swallowed only for exist_ok on a directory
RECURSIVE Mkdir(_, _, _, _, _)
Mkdir(f, p, parents, exist_ok, now) ==
    IF Lexists(f, p) THEN [ok |-> exist_ok /\ IsDir(f, p), fs |-> f]
    ELSE IF p = Root THEN [ok |-> FALSE, fs |-> f]
    ELSE IF ~Lexists(f, Parent(p)) THEN
        IF ~parents THEN [ok |-> FALSE, fs |-> f]
        ELSE LET r == Mkdir(f, Parent(p), TRUE, TRUE, now) IN
             IF r.ok THEN Mkdir(r.fs, p, FALSE, exist_ok, now) ELSE r
    ELSE IF f[Parent(p)].kind # "dir" THEN [ok |-> FALSE, fs |-> f]
    ELSE [ok |-> TRUE, fs |-> Put(Touch(f, Parent(p), now), p, DirNode(0, now, now))]

\* Path.symlink_to: os.symlink fails on any existing name, link or not
SymlinkTo(f, p, src, now) ==
    IF Lexists(f, p) \/ p = Root THEN [ok |-> FALSE, fs |-> f]
    ELSE IF ~Lexists(f, Parent(p)) \/ f[Parent(p)].kind # "dir" THEN [ok |-> FALSE, fs |-> f]
    ELSE [ok |-> TRUE, fs |-> Put(Touch(f, Parent(p), now), p, LinkNode(src, now))]

\* Path.unlink
Unlink(f, p, now) ==
    IF ~Lexists(f, p) \/ f[p].kind = "dir" THEN [ok |-> FALSE, fs |-> f]
    ELSE [ok |-> TRUE, fs |-> Touch(Del(f, p), Parent(p), now)]

\* the subtree at src re-rooted at dst
MoveTree(f, src, dst, now) ==
    LET moved == {q \in DOMAIN f : IsPrefix(src, q)}
        kept == (DOMAIN f) \ moved
        to(q) == dst \o SubSeq(q, Len(src) + 1, Len(q))
        g == [q \in kept \cup {to(m) : m \in moved} |->
                IF q \in kept THEN f[q]
                ELSE f[CHOOSE m \in moved : to(m) = q]]
    IN Touch(Touch(g, Parent(src), now), Parent(dst), now)

\* a faulty variant: the entry is copied to its destination and left where it was
ShutilMove_Copying(f, src, dst, now) ==
    IF Lexists(f, src) /\ ~Lexists(f, dst) /\ IsDir(f, Parent(dst)) /\ ~IsPrefix(src, dst)
    THEN [ok |-> TRUE, fs |-> Put(Touch(f, Parent(dst), now), dst, f[src])]
    ELSE [ok |-> FALSE, fs |-> f]

\* shutil.move(src, dst): os.rename, and when that fails the copy-and-delete
\* fallback, which refuses a directory moved into itself and cannot replace an
\* existing name by a directory
ShutilMove(f, src, dst, now) ==
    LET real_dst == IF IsDir(f, dst) THEN Join(dst, Name(src)) ELSE dst IN
    IF ~Lexists(f, src) THEN [ok |-> FALSE, fs |-> f]
    ELSE IF IsDir(f, dst) /\ Exists(f, real_dst) THEN [ok |-> FALSE, fs |-> f]
    ELSE IF IsPrefix(src, real_dst) THEN [ok |-> FALSE, fs |-> f]
    ELSE IF ~Lexists(f, Parent(real_dst)) THEN
        \* rename fails; copytree makes the missing parents, copy2 does not
        LET r == Mkdir(f, Parent(real_dst), TRUE, TRUE, now) IN
        IF f[src].kind = "dir" /\ r.ok
        THEN [ok |-> TRUE, fs |-> MoveTree(r.fs, src, real_dst, now)]
        ELSE [ok |-> FALSE, fs |-> f]
    ELSE IF f[Parent(real_dst)].kind # "dir" THEN [ok |-> FALSE, fs |-> f]
    ELSE IF Lexists(f, real_dst) /\ (f[src].kind = "dir" \/ f[real_dst].kind = "dir")
        THEN [ok |-> FALSE, fs |-> f]
    ELSE [ok |-> TRUE, fs |-> MoveTree(Del(f, real_dst), src, real_dst, now)]

----------------------------------------------------------------------------
(* Program constants *)

\* 24 * 3600
SecondsPerDay == 86400

Buckets == <<"current", "recent", "old", "archive">>

ConfigFileName == ".playground-config.json"

\* B: the thresholds of __init__ when the environment sets none
DefaultThresholds == [current |-> 30, recent |-> 180, old |-> 365]

\* B: EXCLUDE_DIRS when the environment sets none
DefaultExcludedDirs == <<".git", "node_modules", ".DS_Store", "__pycache__", ".env">>

\* P: the excluded directories when the config file names none
DefaultExcludedDirsP == {".git", "node_modules", ".DS_Store", "__pycache__", ".venv", "venv"}

ImportantHidden ==
    {".gitignore", ".env.example", ".npmignore", ".dockerignore",
     ".editorconfig", ".prettierrc", ".eslintrc", ".gitattributes"}

DevelopmentExts ==
    {Chars[e] : e \in {".py", ".js", ".ts", ".jsx", ".tsx", ".java", ".cpp", ".c",
                       ".go", ".rs", ".rb", ".php"}}
MediaExts ==
    {Chars[e] : e \in {".jpg", ".jpeg", ".png", ".gif", ".mp4", ".avi", ".mp3",
                       ".wav", ".mov"}}
DataExts ==
    {Chars[e] : e \in {".sql", ".db", ".sqlite", ".json", ".csv", ".parquet"}}
LearningExts ==
    {Chars[e] : e \in {".md", ".txt", ".doc", ".docx", ".pdf"}}

\* B: the document load_config builds and saves when no config file exists
DefaultConfig(table) ==
    [tracking_enabled |-> TRUE,
     auto_organize |-> FALSE,
     excluded_dirs |-> DefaultExcludedDirs,
     last_organized |-> "None",
     use_symlinks |-> TRUE,
     symlink_base_dir |-> "organized",
     theme_mappings |-> table,
     organization_modes |-> <<"time", "theme">>]

----------------------------------------------------------------------------
(* Classification *)

\* a faulty variant: the comparison with a threshold made strict
DaysLeq_Strict(age, days) == age < days * SecondsPerDay

\* `(now - last_used) / (24 * 3600) <= days`, on integer seconds
DaysLeq(age, days) == age <= days * SecondsPerDay

\* B.analyze_access_patterns, lines 260-262: the most recent of access and
\* modification time, and the age since then
LastUsed(st) == IF st.atime >= st.mtime THEN st.atime ELSE st.mtime
AgeOf(st, now) == now - LastUsed(st)

\* B.analyze_access_patterns, lines 267-279: the bucket cascade
TimeBucketB(age, th) ==
    IF DaysLeq(age, th.current) THEN "current"
    ELSE IF DaysLeq(age, th.recent) THEN "recent"
    ELSE IF DaysLeq(age, th.old) THEN "old"
    ELSE "archive"

\* P._classify_by_time: thresholds held in seconds
ClassifyByTimeP(age, th) ==
    IF age <= th.current * SecondsPerDay THEN "current"
    ELSE IF age <= th.recent * SecondsPerDay THEN "recent"
    ELSE IF age <= th.old * SecondsPerDay THEN "old"
    ELSE "archive"

\* a faulty variant: only the first keyword of a theme is looked for
KeywordHit_FirstOnly(lowered, keywords) ==
    Len(keywords) > 0 /\ Contains(lowered, Chars[keywords[1]])

\* whether one of a theme's keywords occurs in the lowercased name
KeywordHit(lowered, keywords) ==
    \E i \in 1..Len(keywords) : Contains(lowered, Chars[keywords[i]])

\* a faulty variant: the scan does not pass over misc
ThemeScanned_Every(theme) == TRUE

\* whether the scan over theme_mappings looks at an entry of the table
ThemeScanned(theme) == theme # "misc"

\* theme_mappings as a config file may hold them: development placed before ai
DevelopmentFirstMappings ==
    <<DefaultThemeMappingsB[4], DefaultThemeMappingsB[1]>>
    \o SubSeq(DefaultThemeMappingsB, 2, 3) \o SubSeq(DefaultThemeMappingsB, 5, 9)

\* theme_mappings as a config file may hold them: misc placed first and given a
\* keyword, productivity placed before ai
MiscFirstMappings ==
    <<[theme |-> "misc", keywords |-> <<"dev">>], DefaultThemeMappingsB[2],
      DefaultThemeMappingsB[1]>>
    \o SubSeq(DefaultThemeMappingsB, 3, 8)

\* the theme tables the configurations of the model hold
ThemeTables ==
    {DefaultThemeMappingsB, DefaultThemeMappingsP, DevelopmentFirstMappings, MiscFirstMappings,
     \* a user's table that keeps only the first three themes: ai, productivity, stocks
     SubSeq(DefaultThemeMappingsB, 1, 3)}

\* the loop over theme_mappings.items(): the first scanned theme with a hit
\* (a function of name and table, so that it is computed once for each pair)
ScanThemes[name \in DOMAIN Chars, table \in ThemeTables] ==
    LET lowered == Lower(Chars[name])
        hits == {i \in 1..Len(table) :
                    ThemeScanned(table[i].theme) /\ KeywordHit(lowered, table[i].keywords)}
    IN IF hits = {} THEN "misc"
       ELSE table[CHOOSE i \in hits : \A j \in hits : i <= j].theme

NameTheme(name, table) == ScanThemes[name, table]

\* a faulty variant: no extension table, every file is classified by its name
ExtTheme_NoTable(name) == "none"

\* B.detect_theme, lines 175-185: a regular file is classified by its extension
ExtTheme(name) ==
    LET suffix == Lower(Suffix(Chars[name])) IN
    IF suffix \in DevelopmentExts THEN "development"
    ELSE IF suffix \in MediaExts THEN "media"
    ELSE IF suffix \in DataExts THEN "data"
    ELSE IF suffix \in LearningExts THEN "learning"
    ELSE "none"

\* B.detect_theme
DetectTheme(name, isfile, table) ==
    IF isfile /\ ExtTheme(name) # "none" THEN ExtTheme(name)
    ELSE NameTheme(name, table)

\* P._classify_by_theme
ClassifyByThemeP(name, table) == NameTheme(name, table)

----------------------------------------------------------------------------
(* Listing and analysis *)

\* The names that can occur in the organized root, in the order the operating
\* system lists them (Path.iterdir); the order is the same at every listing.
ListingOrder ==
    <<"AI-dev", "notes", "todo.py", "node_modules", "__pycache__", ".git", ".gitignore", "stuff",
      "organized", "current", "recent", "old", "archive">>

\* Path.iterdir on a directory
Iterdir(f, dir) ==
    SelectSeq(ListingOrder, LAMBDA n : Lexists(f, Join(dir, n)))

\* get_file_stats / _get_directory_info: stat follows a symlink and fails on a
\* dangling one; both return None then
StatOk(f, p) == Exists(f, p)
Stat(f, p) == f[Resolve(f, p)]

RECURSIVE InsertByAge(_, _)
InsertByAge(sorted, e) ==
    IF sorted = <<>> THEN <<e>>
    ELSE IF Head(sorted).age <= e.age
         THEN <<Head(sorted)>> \o InsertByAge(Tail(sorted), e)
         ELSE <<e>> \o sorted

\* list.sort(key=days_since_used): ascending and stable
RECURSIVE SortByAge(_)
SortByAge(s) ==
    IF s = <<>> THEN <<>>
    ELSE InsertByAge(SortByAge(SubSeq(s, 1, Len(s) - 1)), s[Len(s)])

RECURSIVE InsertByLastAccessDesc(_, _)
InsertByLastAccessDesc(sorted, e) ==
    IF sorted = <<>> THEN <<e>>
    ELSE IF Head(sorted).last_access >= e.last_access
         THEN <<Head(sorted)>> \o InsertByLastAccessDesc(Tail(sorted), e)
         ELSE <<e>> \o sorted

\* sorted(key=last_access, reverse=True): descending and stable
RECURSIVE SortByLastAccessDesc(_)
SortByLastAccessDesc(s) ==
    IF s = <<>> THEN <<>>
    ELSE InsertByLastAccessDesc(SortByLastAccessDesc(SubSeq(s, 1, Len(s) - 1)), s[Len(s)])

\* a faulty variant: every dot-prefixed name skipped, the allow-list ignored
SkippedHidden_Unlisted(name) == StartsWithDot(name)

\* B.analyze_access_patterns, lines 240-247: the hidden-name rule
SkippedHidden(name) == StartsWithDot(name) /\ name \notin ImportantHidden

\* a faulty variant: the exclusion list applied to regular files as well
SkippedExcluded_FilesToo(f, name, cfg) ==
    /\ IsDir(f, <<name>>) \/ IsFile(f, <<name>>)
    /\ "excluded_dirs" \in DOMAIN cfg
    /\ name \in Range(cfg.excluded_dirs)

\* B.analyze_access_patterns, lines 249-252: the exclusion rule
SkippedExcluded(f, name, cfg) ==
    IsDir(f, <<name>>) /\ name \in Range(cfg.excluded_dirs)

\* a faulty variant: every child that can be stat'ed is classified
AnalysedNames_Unfiltered(f, cfg) ==
    SelectSeq(Iterdir(f, Root), LAMBDA n : StatOk(f, <<n>>))

\* B.analyze_access_patterns: the children of the root that are classified
AnalysedNames(f, cfg) ==
    SelectSeq(Iterdir(f, Root),
              LAMBDA n : ~SkippedHidden(n) /\ ~SkippedExcluded(f, n, cfg) /\ StatOk(f, <<n>>))

\* the stats record analysis keeps for one child
EntryB(f, n, now, th) ==
    LET st == Stat(f, <<n>>) IN
    [name |-> n, path |-> <<n>>, atime |-> st.atime, mtime |-> st.mtime,
     age |-> AgeOf(st, now), bucket |-> TimeBucketB(AgeOf(st, now), th)]

\* B.analyze_access_patterns: bucket -> entries, each bucket sorted by age.
\* A root that is missing or no directory gives four empty buckets.
AnalyzeB(f, now, cfg, th) ==
    LET names == IF IsDir(f, Root) THEN AnalysedNames(f, cfg) ELSE <<>>
        all == [i \in 1..Len(names) |-> EntryB(f, names[i], now, th)]
    IN [b \in Range(Buckets) |-> SortByAge(SelectSeq(all, LAMBDA e : e.bucket = b))]

\* `for category, files in analysis.items()` then `for file_info in files`
Flatten(analysis) ==
    analysis["current"] \o analysis["recent"] \o analysis["old"] \o analysis["archive"]

----------------------------------------------------------------------------
(* B: the engine's operations on the tree *)

\* a faulty variant: create_symlink refuses whatever is at the target
RefusesTarget_Any(f, target) == Lexists(f, target)

\* create_symlink, lines 200-204: a target that exists and is no symlink is refused
RefusesTarget(f, target) ==
    (Exists(f, target) \/ IsSymlink(f, target)) /\ ~IsSymlink(f, target)

\* create_symlink: every exception is caught and gives False
CreateSymlink(f, source, target, now) ==
    IF RefusesTarget(f, target) THEN [ret |-> FALSE, fs |-> f]
    ELSE LET f1 == IF IsSymlink(f, target) THEN Unlink(f, target, now).fs ELSE f
             m == Mkdir(f1, Parent(target), TRUE, TRUE, now)
             s == SymlinkTo(m.fs, target, source, now)
         IN IF ~m.ok THEN [ret |-> FALSE, fs |-> m.fs]
            ELSE [ret |-> s.ok, fs |-> s.fs]

\* a run of mkdir(exist_ok=True) calls that stops at the first one to raise
RECURSIVE MkdirAll(_, _, _)
MkdirAll(f, paths, now) ==
    IF paths = <<>> THEN [ok |-> TRUE, fs |-> f]
    ELSE LET r == Mkdir(f, Head(paths), FALSE, TRUE, now) IN
         IF r.ok THEN MkdirAll(r.fs, Tail(paths), now) ELSE r

\* create_organization_structure('time')
CreateOrganizationStructure(f, now) ==
    MkdirAll(f, [i \in 1..Len(Buckets) |-> <<Buckets[i]>>], now)

\* save_config
SavedFile(cfg) == [exists |-> TRUE, parses |-> TRUE, doc |-> cfg]

\* organize_files, lines 327-342: the (source, target) pairs of an executing run
MovesOf(analysis) ==
    LET es == Flatten(analysis) IN
    [i \in 1..Len(es) |-> [src |-> es[i].path, dst |-> <<es[i].bucket, es[i].name>>,
                           name |-> es[i].name, into |-> es[i].bucket]]

\* organize_with_symlinks, lines 415-431: the link wanted for every analysed entry
TimeLinksOf(analysis, cfg) ==
    LET es == Flatten(analysis) IN
    [i \in 1..Len(es) |->
        [src |-> es[i].path,
         dst |-> <<cfg.symlink_base_dir, "by-time", es[i].bucket, es[i].name>>,
         name |-> es[i].name, into |-> es[i].bucket]]

\* organize_by_theme, lines 371-376: the children of the root that get a theme
ThemedNames(f, cfg) ==
    SelectSeq(Iterdir(f, Root),
              LAMBDA n : IsDir(f, <<n>>) /\ ~StartsWithDot(n)
                         /\ n \notin Range(cfg.excluded_dirs)
                         /\ n # cfg.symlink_base_dir
                         /\ StatOk(f, <<n>>))

\* the loop over theme_groups.items(), lines 387-396: the entries in the order of
\* the groups, a group standing where its theme was first met; theme[i] is the
\* theme of names[i]
GroupedByTheme(names, theme, base) ==
    LET n == Len(names)
        before(i) == Cardinality({j \in 1..n :
                        \/ \E k \in 1..n : /\ theme[k] = theme[j]
                                            /\ \A m \in 1..k : theme[m] # theme[i]
                        \/ theme[j] = theme[i] /\ j < i})
    IN [k \in 1..n |->
          The({[src |-> <<names[i]>>,
                dst |-> <<base, "by-theme", theme[i], names[i]>>,
                name |-> names[i], into |-> theme[i]] :
               i \in {i \in 1..n : before(i) = k - 1}})]

\* organize_by_theme, lines 378-396: the links wanted, grouped by theme
ThemeLinksOf(f, cfg) ==
    The({The({GroupedByTheme(names, theme, cfg.symlink_base_dir) :
              theme \in {[i \in 1..Len(names) |->
                            DetectTheme(names[i], IsFile(f, <<names[i]>>),
                                        cfg.theme_mappings)]}}) :
         names \in {ThemedNames(f, cfg)}})

\* the action strings of the two symlink planners
ActionsOf(kind, links) ==
    [i \in 1..Len(links) |-> [kind |-> kind, name |-> links[i].name, into |-> links[i].into]]

----------------------------------------------------------------------------
(* Calls and runs *)

\* what the step of an executing loop found at its destination (lstat)
Found(f, p) == IF Lexists(f, p) THEN f[p].kind ELSE "none"

\* a real file or a real directory, not a symlink, is at the path
RealAt(f, p) == Lexists(f, p) /\ f[p].kind \in {"file", "dir"}

\* a faulty variant: an engine that executes whatever it is asked
Executing_Always(dry_run) == TRUE

\* "if not dry_run": what a call does only when it is asked to execute
Executing(dry_run) == ~dry_run

\* a call is made: the loop of no earlier call is under way
Begin ==
    /\ pc = "idle"
    /\ budget > 0
    /\ budget' = budget - 1

\* no run under way
IdleRun ==
    [op |-> "none", dry |-> TRUE, symlinks |-> FALSE, queue |-> <<>>, log |-> <<>>,
     actions |-> <<>>, planted |-> FALSE, now |-> 0, pre |-> [p \in {} |-> 0]]

\* the record of a completed call: raised tells whether an exception reached the
\* caller, ok is create_symlink's result, actions the list returned, log the
\* steps of the executing loop, pre the tree when the call began
Call(op, dry, symlinks, raised, ok, actions, log, pre, now) ==
    [op |-> op, dry |-> dry, symlinks |-> symlinks, raised |-> raised, ok |-> ok,
     actions |-> actions, log |-> log, pre |-> pre, now |-> now]

\* a call returns (or raises) without leaving a loop under way
Return(call) ==
    /\ last' = call
    /\ prev' = last
    /\ pc' = "idle"
    /\ run' = IdleRun

\* a call enters its executing loop
Enter(op, dry_run, symlinks, queue, actions, now) ==
    /\ pc' = op
    /\ run' = [op |-> op, dry |-> dry_run, symlinks |-> symlinks, queue |-> queue,
               log |-> <<>>, actions |-> actions, planted |-> FALSE, now |-> now,
               pre |-> fs]
    /\ UNCHANGED <<last, prev>>

\* one step of a loop is done: the loop goes on, or the call returns
StepEntry(item, found, outcome) ==
    [src |-> item.src, dst |-> item.dst, found |-> found, outcome |-> outcome]

----------------------------------------------------------------------------
(* B: organize_files *)

\* the engine is called with the loop of no earlier call under way
B_OrganizeFiles(dry_run) ==
    /\ Begin
    /\ LET analysis == AnalyzeB(fs, clock, config, thresholds)
           moves == IF Executing(dry_run) THEN MovesOf(analysis) ELSE <<>>
           made == CreateOrganizationStructure(fs, clock)
       IN IF ~(Executing(dry_run) /\ moves # <<>>)
          THEN /\ Return(Call("organize_files", dry_run, FALSE, FALSE, TRUE, <<>>, <<>>, fs, clock))
               /\ UNCHANGED <<fs, config, configFile>>
          ELSE IF ~made.ok
          THEN \* create_organization_structure raises: nothing catches it
               /\ fs' = made.fs
               /\ Return(Call("organize_files", dry_run, FALSE, TRUE, TRUE, <<>>, <<>>, fs, clock))
               /\ UNCHANGED <<config, configFile>>
          ELSE /\ fs' = made.fs
               /\ Enter("organize_files", dry_run, FALSE, moves, <<>>, clock)
               /\ UNCHANGED <<config, configFile>>
    /\ UNCHANGED <<clock, thresholds, probe>>

\* a faulty variant: the move loop without its existence check
MoveSkipped_Never(f, dst) == FALSE

\* organize_files, lines 350-352: the destination exists, the move is skipped
MoveSkipped(f, dst) == Exists(f, dst)

\* organize_files, lines 348-356: one iteration of the move loop
MoveOne(f, m, now) ==
    IF MoveSkipped(f, m.dst) THEN [outcome |-> "skipped", fs |-> f]
    ELSE LET r == ShutilMove(f, m.src, m.dst, now) IN
         [outcome |-> IF r.ok THEN "moved" ELSE "error", fs |-> r.fs]

\* one iteration of the move loop; after the last one, lines 358-359 record
\* the time in the config, save it, and the call returns
B_MoveStep ==
    /\ pc = "organize_files"
    /\ run.queue # <<>>
    /\ LET m == Head(run.queue)
           r == MoveOne(fs, m, clock)
           log == Append(run.log, StepEntry(m, Found(fs, m.dst), r.outcome))
       IN /\ fs' = r.fs
          /\ IF Tail(run.queue) = <<>>
             THEN /\ config' = [config EXCEPT !.last_organized = clock]
                  /\ configFile' = SavedFile(config')
                  /\ Return(Call("organize_files", run.dry, FALSE, FALSE, TRUE, <<>>, log,
                                 run.pre, run.now))
             ELSE /\ run' = [run EXCEPT !.queue = Tail(run.queue), !.log = log]
                  /\ UNCHANGED <<pc, last, prev, config, configFile>>
    /\ UNCHANGED <<clock, thresholds, probe, budget>>

----------------------------------------------------------------------------
(* B: organize_with_symlinks, organize_by_theme, create_symlink *)

B_OrganizeWithSymlinks(dry_run) ==
    /\ Begin
    /\ LET links == TimeLinksOf(AnalyzeB(fs, clock, config, thresholds), config)
           actions == ActionsOf("Create symlink", links)
       IN IF ~Executing(dry_run) \/ links = <<>>
          THEN Return(Call("organize_with_symlinks", dry_run, TRUE, FALSE, TRUE, actions,
                           <<>>, fs, clock))
          ELSE Enter("organize_with_symlinks", dry_run, TRUE, links, actions, clock)
    /\ UNCHANGED <<fs, clock, config, thresholds, configFile, probe>>

\* organize_with_symlinks, lines 438-441: the bucket directory is made, outside
\* any try, and then the link
LinkIntoBucket(f, l, now) ==
    LET m == Mkdir(f, Parent(l.dst), TRUE, TRUE, now)
        c == CreateSymlink(m.fs, l.src, l.dst, now)
    IN IF ~m.ok THEN [outcome |-> "raised", fs |-> m.fs]
       ELSE [outcome |-> IF c.ret THEN "linked" ELSE "refused", fs |-> c.fs]

\* a faulty variant: theme mode moves the entry into its theme directory
LinkIntoTheme_Moving(f, l, now) ==
    LET m == Mkdir(f, Parent(l.dst), TRUE, TRUE, now)
        s == ShutilMove(m.fs, l.src, l.dst, now)
    IN [outcome |-> IF m.ok /\ s.ok THEN "linked" ELSE "refused",
        fs |-> IF m.ok THEN s.fs ELSE f]

\* organize_by_theme, lines 403-405
LinkIntoTheme(f, l, now) ==
    LET c == CreateSymlink(f, l.src, l.dst, now) IN
    [outcome |-> IF c.ret THEN "linked" ELSE "refused", fs |-> c.fs]

\* one iteration of a symlink loop: an exception ends the call there, the last
\* iteration returns the action list
LinkStep(op, r) ==
    /\ pc = op
    /\ run.queue # <<>>
    /\ LET l == Head(run.queue)
           log == Append(run.log, StepEntry(l, Found(fs, l.dst), r.outcome))
       IN /\ fs' = r.fs
          /\ IF r.outcome = "raised"
             THEN Return(Call(op, run.dry, TRUE, TRUE, TRUE, <<>>, log, run.pre, run.now))
             ELSE IF Tail(run.queue) = <<>>
             THEN Return(Call(op, run.dry, TRUE, FALSE, TRUE, run.actions, log, run.pre, run.now))
             ELSE /\ run' = [run EXCEPT !.queue = Tail(run.queue), !.log = log]
                  /\ UNCHANGED <<pc, last, prev>>
    /\ UNCHANGED <<clock, config, thresholds, configFile, probe, budget>>

B_TimeLinkStep ==
    /\ pc = "organize_with_symlinks"
    /\ run.queue # <<>>
    /\ LinkStep("organize_with_symlinks", LinkIntoBucket(fs, Head(run.queue), clock))

B_OrganizeByTheme(dry_run) ==
    /\ Begin
    /\ LET links == ThemeLinksOf(fs, config)
           actions == ActionsOf("Create theme symlink", links)
       IN IF ~IsDir(fs, Root)
          THEN \* iterdir raises
               Return(Call("organize_by_theme", dry_run, TRUE, TRUE, TRUE, <<>>, <<>>, fs, clock))
          ELSE IF ~Executing(dry_run) \/ links = <<>>
          THEN Return(Call("organize_by_theme", dry_run, TRUE, FALSE, TRUE, actions, <<>>,
                           fs, clock))
          ELSE Enter("organize_by_theme", dry_run, TRUE, links, actions, clock)
    /\ UNCHANGED <<fs, clock, config, thresholds, configFile, probe>>

B_ThemeLinkStep ==
    /\ pc = "organize_by_theme"
    /\ run.queue # <<>>
    /\ LinkStep("organize_by_theme", LinkIntoTheme(fs, Head(run.queue), clock))

\* create_symlink called on its own, with a source and a target the organize
\* operations would compute for the tree as it is
B_CreateSymlink ==
    /\ Begin
    /\ \E l \in Range(TimeLinksOf(AnalyzeB(fs, clock, config, thresholds), config))
                \cup Range(ThemeLinksOf(fs, config)) :
         LET c == CreateSymlink(fs, l.src, l.dst, clock) IN
         /\ fs' = c.fs
         /\ Return(Call("create_symlink", FALSE, TRUE, FALSE, c.ret, <<>>,
                        <<StepEntry(l, Found(fs, l.dst), IF c.ret THEN "linked" ELSE "refused")>>,
                        fs, clock))
    /\ UNCHANGED <<clock, config, thresholds, configFile, probe>>

----------------------------------------------------------------------------
(* P: the stand-alone CLI engine, constructed by main() for every invocation *)

\* _load_config: the parsed file, or {} when it is missing or does not parse
LoadConfigP(cf) == IF cf.exists /\ cf.parses THEN cf.doc ELSE [k \in {} |-> 0]

\* __init__, lines 27-29: config.get("thresholds", {}).get(name, default)
ThresholdsP(doc) ==
    LET t == IF "thresholds" \in DOMAIN doc THEN doc.thresholds ELSE [k \in {} |-> 0] IN
    [current |-> IF "current" \in DOMAIN t THEN t.current ELSE DefaultThresholds.current,
     recent |-> IF "recent" \in DOMAIN t THEN t.recent ELSE DefaultThresholds.recent,
     old |-> IF "old" \in DOMAIN t THEN t.old ELSE DefaultThresholds.old]

\* __init__, lines 32-34
ExcludedDirsP(doc) ==
    IF "excluded_dirs" \in DOMAIN doc THEN Range(doc.excluded_dirs) ELSE DefaultExcludedDirsP

\* __init__, lines 37-47
ThemeMappingsP(doc) ==
    IF "theme_mappings" \in DOMAIN doc THEN doc.theme_mappings ELSE DefaultThemeMappingsP

\* analyze_directories, lines 122-131: the directories that are analysed
AnalysedNamesP(f, doc) ==
    SelectSeq(Iterdir(f, Root),
              LAMBDA n : IsDir(f, <<n>>) /\ n \notin ExcludedDirsP(doc)
                         /\ ~StartsWithDot(n) /\ StatOk(f, <<n>>))

\* analyze_directories: most recently used first
AnalyzeDirectoriesP(f, now, doc) ==
    LET names == AnalysedNamesP(f, doc)
        info(n) ==
            [name |-> n, path |-> <<n>>, last_access |-> LastUsed(Stat(f, <<n>>)),
             time_category |-> ClassifyByTimeP(now - LastUsed(Stat(f, <<n>>)), ThresholdsP(doc)),
             theme |-> ClassifyByThemeP(n, ThemeMappingsP(doc))]
    IN SortByLastAccessDesc([i \in 1..Len(names) |-> info(names[i])])

\* a faulty variant: a dry run makes the missing bucket directories too
MakesDir_Dry(dry_run, exists) == ~exists

\* organize_by_time, line 203: "if not dry_run and not org_dir.exists()"
MakesDir(dry_run, exists) == ~dry_run /\ ~exists

\* organize_by_time, lines 199-205: the loop over the bucket directories; one
\* that is to be made is made and reported by an action; mkdir raising ends
\* the call
RECURSIVE MakeMissingDirs(_, _, _, _, _)
MakeMissingDirs(f, paths, now, kind, dry_run) ==
    IF paths = <<>> THEN [ok |-> TRUE, fs |-> f, actions |-> <<>>]
    ELSE IF ~MakesDir(dry_run, Exists(f, Head(paths)))
    THEN MakeMissingDirs(f, Tail(paths), now, kind, dry_run)
    ELSE LET m == Mkdir(f, Head(paths), FALSE, TRUE, now)
             rest == MakeMissingDirs(m.fs, Tail(paths), now, kind, dry_run)
         IN IF ~m.ok THEN [ok |-> FALSE, fs |-> m.fs, actions |-> <<>>]
            ELSE [ok |-> rest.ok, fs |-> rest.fs,
                  actions |-> <<[kind |-> kind, name |-> Name(Head(paths)), into |-> ""]>>
                              \o rest.actions]

\* organize_by_time, lines 208-212: source and target of every analysed directory
TimeItemsP(dirs) ==
    [i \in 1..Len(dirs) |-> [src |-> dirs[i].path, dst |-> <<dirs[i].time_category, dirs[i].name>>,
                             name |-> dirs[i].name, into |-> dirs[i].time_category]]

\* organize_by_time, lines 214-216: the target exists, the entry is skipped
SkipExistingP(f, dst) == Exists(f, dst)

\* organize_by_time, lines 214-220: the action a dry run reports for one entry
PlannedActionP(f, it, verb) ==
    IF SkipExistingP(f, it.dst) THEN [kind |-> "SKIP (exists)", name |-> it.name, into |-> it.into]
    ELSE [kind |-> verb, name |-> it.name, into |-> it.into]

\* organize_by_time, lines 214-230: one iteration when executing
ApplyTimeP(f, it, use_symlinks, now) ==
    IF SkipExistingP(f, it.dst) THEN [outcome |-> "skipped", kind |-> "SKIP (exists)", fs |-> f]
    ELSE IF use_symlinks
    THEN LET s == SymlinkTo(f, it.dst, Resolve(f, it.src), now) IN
         [outcome |-> IF s.ok THEN "linked" ELSE "error",
          kind |-> IF s.ok THEN "Symlinked" ELSE "ERROR", fs |-> s.fs]
    ELSE LET r == ShutilMove(f, it.src, it.dst, now) IN
         [outcome |-> IF r.ok THEN "moved" ELSE "error",
          kind |-> IF r.ok THEN "Moved" ELSE "ERROR", fs |-> r.fs]

P_OrganizeByTime(dry_run, use_symlinks) ==
    /\ Begin
    /\ LET doc == LoadConfigP(configFile)
           items == TimeItemsP(AnalyzeDirectoriesP(fs, clock, doc))
           verb == IF use_symlinks THEN "Would symlink" ELSE "Would move"
           made == MakeMissingDirs(fs, [i \in 1..Len(Buckets) |-> <<Buckets[i]>>], clock,
                                   "Created directory", dry_run)
       IN IF ~IsDir(fs, Root)
          THEN /\ Return(Call("p_organize_by_time", dry_run, use_symlinks, TRUE, TRUE, <<>>,
                              <<>>, fs, clock))
               /\ UNCHANGED fs
          ELSE IF ~made.ok \/ items = <<>>
          THEN /\ fs' = made.fs
               /\ Return(Call("p_organize_by_time", dry_run, use_symlinks, ~made.ok, TRUE,
                              made.actions, <<>>, fs, clock))
          ELSE IF ~Executing(dry_run)
          THEN /\ fs' = made.fs
               /\ Return(Call("p_organize_by_time", dry_run, use_symlinks, FALSE, TRUE,
                              made.actions
                              \o [i \in 1..Len(items) |->
                                     PlannedActionP(made.fs, items[i], verb)],
                              <<>>, fs, clock))
          ELSE /\ fs' = made.fs
               /\ Enter("p_organize_by_time", dry_run, use_symlinks, items, made.actions, clock)
    /\ UNCHANGED <<clock, config, thresholds, configFile, probe>>

\* one iteration of a loop of P: the action is appended, the last iteration
\* returns the list
StepP(op, r) ==
    /\ pc = op
    /\ run.queue # <<>>
    /\ LET it == Head(run.queue)
           log == Append(run.log, StepEntry(it, Found(fs, it.dst), r.outcome))
           actions == Append(run.actions, [kind |-> r.kind, name |-> it.name, into |-> it.into])
       IN /\ fs' = r.fs
          /\ IF Tail(run.queue) = <<>>
             THEN Return(Call(op, run.dry, run.symlinks, FALSE, TRUE, actions, log, run.pre,
                              run.now))
             ELSE /\ run' = [run EXCEPT !.queue = Tail(run.queue), !.log = log,
                                        !.actions = actions]
                  /\ UNCHANGED <<pc, last, prev>>
    /\ UNCHANGED <<clock, config, thresholds, configFile, probe, budget>>

P_TimeStep ==
    /\ pc = "p_organize_by_time"
    /\ run.queue # <<>>
    /\ StepP("p_organize_by_time", ApplyTimeP(fs, Head(run.queue), run.symlinks, clock))

\* organize_by_theme (P), lines 240-260: source and target of every analysed
\* directory; theme_dirs has a key for every theme of the table only
ThemeItemsP(dirs, table) ==
    [i \in 1..Len(dirs) |->
        [src |-> dirs[i].path, dst |-> <<"organized", "by-theme", dirs[i].theme, dirs[i].name>>,
         name |-> dirs[i].name, into |-> dirs[i].theme,
         known |-> \E k \in 1..Len(table) : table[k].theme = dirs[i].theme]]

\* organize_by_theme (P), lines 262-273: one iteration when executing
ApplyThemeP(f, it, now) ==
    IF SkipExistingP(f, it.dst) THEN [outcome |-> "skipped", kind |-> "SKIP (exists)", fs |-> f]
    ELSE LET s == SymlinkTo(f, it.dst, Resolve(f, it.src), now) IN
         [outcome |-> IF s.ok THEN "linked" ELSE "error",
          kind |-> IF s.ok THEN "Symlinked" ELSE "ERROR", fs |-> s.fs]

P_OrganizeByTheme(dry_run) ==
    /\ Begin
    /\ LET doc == LoadConfigP(configFile)
           table == ThemeMappingsP(doc)
           items == ThemeItemsP(AnalyzeDirectoriesP(fs, clock, doc), table)
           \* lines 242-244: the base directory is made only when executing
           base == IF Executing(dry_run)
                   THEN Mkdir(fs, <<"organized", "by-theme">>, TRUE, TRUE, clock)
                   ELSE [ok |-> TRUE, fs |-> fs]
           made == MakeMissingDirs(base.fs,
                                   [i \in 1..Len(table) |-> <<"organized", "by-theme", table[i].theme>>],
                                   clock, "Created theme directory", dry_run)
           created == (IF Executing(dry_run)
                       THEN <<[kind |-> "Created theme base directory", name |-> "by-theme",
                               into |-> ""]>>
                       ELSE <<>>) \o made.actions
           unknown == \E i \in 1..Len(items) : ~items[i].known
       IN IF ~IsDir(fs, Root)
          THEN /\ Return(Call("p_organize_by_theme", dry_run, TRUE, TRUE, TRUE, <<>>, <<>>,
                              fs, clock))
               /\ UNCHANGED fs
          ELSE IF ~base.ok
          THEN /\ fs' = base.fs
               /\ Return(Call("p_organize_by_theme", dry_run, TRUE, TRUE, TRUE, <<>>, <<>>, fs,
                              clock))
          ELSE IF ~made.ok \/ items = <<>>
          THEN /\ fs' = made.fs
               /\ Return(Call("p_organize_by_theme", dry_run, TRUE, ~made.ok, TRUE,
                              IF made.ok THEN created ELSE <<>>, <<>>, fs, clock))
          ELSE IF ~Executing(dry_run)
          THEN /\ fs' = made.fs
               /\ Return(Call("p_organize_by_theme", dry_run, TRUE, unknown, TRUE,
                              IF unknown THEN <<>>
                              ELSE created \o [i \in 1..Len(items) |->
                                                 PlannedActionP(made.fs, items[i], "Would symlink")],
                              <<>>, fs, clock))
          ELSE /\ fs' = made.fs
               /\ Enter("p_organize_by_theme", dry_run, TRUE, items, created, clock)
    /\ UNCHANGED <<clock, config, thresholds, configFile, probe>>

\* theme_dirs[theme] raises KeyError for a theme the table does not hold
P_ThemeStep ==
    /\ pc = "p_organize_by_theme"
    /\ run.queue # <<>>
    /\ IF Head(run.queue).known
       THEN StepP("p_organize_by_theme", ApplyThemeP(fs, Head(run.queue), clock))
       ELSE /\ Return(Call("p_organize_by_theme", run.dry, TRUE, TRUE, TRUE, <<>>, run.log,
                           run.pre, run.now))
            /\ UNCHANGED <<fs, clock, config, thresholds, configFile, probe, budget>>

----------------------------------------------------------------------------
(* W: the HTTP handlers of backend/start_web_server.py over the engine B *)

\* POST /api/organize: whatever the body carries, the engine runs dry
W_Organize(mode, body_execute) ==
    /\ Begin
    /\ LET time == ActionsOf("Create symlink",
                             TimeLinksOf(AnalyzeB(fs, clock, config, thresholds), config))
           theme == ActionsOf("Create theme symlink", ThemeLinksOf(fs, config))
           actions == IF mode = "time" THEN time
                      ELSE IF mode = "theme" THEN theme
                      ELSE IF mode = "both" THEN time \o theme
                      ELSE <<>>
           \* the JSON response carries "executed": False beside the actions
           response == [executed |-> FALSE, mode |-> mode, execute_asked |-> body_execute]
       IN Return(Call("web_organize", TRUE, TRUE, FALSE, TRUE, actions, <<>>, fs, clock)
                 @@ response)
    /\ UNCHANGED <<fs, clock, config, thresholds, configFile, probe>>

\* POST /api/config: dict.update on thresholds and config, then save_config
W_UpdateConfig(data) ==
    /\ Begin
    /\ thresholds' = IF "thresholds" \in DOMAIN data THEN data.thresholds @@ thresholds
                     ELSE thresholds
    /\ config' = IF "config" \in DOMAIN data THEN data.config @@ config ELSE config
    /\ configFile' = SavedFile(config')
    /\ Return(Call("web_update_config", FALSE, FALSE, FALSE, TRUE, <<>>, <<>>, fs, clock))
    /\ UNCHANGED <<fs, clock, probe>>

\* GET /api/files, /api/themes, /api/stats, /api/config: analysis and reading only
W_Read ==
    /\ Begin
    /\ Return(Call("web_read", TRUE, FALSE, FALSE, TRUE, <<>>, <<>>, fs, clock))
    /\ UNCHANGED <<fs, clock, config, thresholds, configFile, probe>>

----------------------------------------------------------------------------
(* The environment *)

\* the clock advances between two calls
Tick ==
    /\ pc = "idle"
    /\ clock < 400 * SecondsPerDay + MaxTicks
    /\ clock' = clock + 1
    /\ UNCHANGED <<fs, config, thresholds, configFile, pc, run, last, prev, probe, budget>>

\* another process creates a real file or directory at the destination of the
\* entry the loop comes to next, between planning and that entry's step (once
\* per run)
EnvPlant(kind) ==
    /\ pc # "idle"
    /\ ~run.planted
    /\ run.queue # <<>>
    /\ LET dst == run.queue[1].dst
           m == Mkdir(fs, Parent(dst), TRUE, TRUE, clock)
       IN /\ ~Lexists(fs, dst)
          /\ m.ok
          /\ fs' = Put(Touch(m.fs, Parent(dst), clock), dst,
                       IF kind = "file" THEN FileNode(9, clock, clock)
                       ELSE DirNode(9, clock, clock))
    /\ run' = [run EXCEPT !.planted = TRUE]
    /\ UNCHANGED <<clock, config, thresholds, configFile, pc, last, prev, probe, budget>>

----------------------------------------------------------------------------
(* Initial states: the tree the engine B has just been constructed on *)

Now0 == 400 * SecondsPerDay
Days(n) == n * SecondsPerDay

\* an entry last used `age` seconds before Now0; which of atime and mtime is the
\* later one differs from entry to entry
UsedAgo(kind, id, age, by_atime) ==
    [kind |-> kind, id |-> id,
     atime |-> IF by_atime THEN Now0 - age ELSE Now0 - age - Days(7),
     mtime |-> IF by_atime THEN Now0 - age - Days(2) ELSE Now0 - age,
     tgt |-> <<>>]

EmptyTree == (Root :> DirNode(0, Now0 - Days(1), Now0 - Days(1)))

\* p with every missing ancestor, made as directories one day old
RECURSIVE WithDirs(_, _)
WithDirs(f, p) ==
    IF Lexists(f, p) THEN f
    ELSE Put(WithDirs(f, Parent(p)), p, DirNode(0, Now0 - Days(1), Now0 - Days(1)))

\* what may already lie in the way of a run: [path, kind, tgt]
Obstacles ==
    {[path |-> <<b, "AI-dev">>, kind |-> k, tgt |-> <<>>] :
        b \in {"current", "recent"}, k \in {"file", "dir"}}
    \cup {[path |-> <<"organized", "by-time", b, "AI-dev">>, kind |-> k, tgt |-> <<>>] :
        b \in {"current", "recent"}, k \in {"file", "dir"}}
    \cup {[path |-> <<"organized", "by-time", b, "AI-dev">>, kind |-> "link", tgt |-> <<"notes">>] :
        b \in {"current", "recent"}}
    \cup {[path |-> <<"organized", "by-theme", "ai", "AI-dev">>, kind |-> k, tgt |-> <<>>] :
        k \in {"file", "dir"}}
    \cup {[path |-> <<"organized", "by-theme", "ai", "AI-dev">>, kind |-> "link", tgt |-> <<"notes">>]}
    \cup {[path |-> <<n>>, kind |-> "file", tgt |-> <<>>] : n \in {"organized", "current"}}

WithObstacle(f, o) ==
    Put(WithDirs(f, Parent(o.path)), o.path,
        IF o.kind = "link" THEN LinkNode(o.tgt, Now0 - Days(1))
        ELSE [kind |-> o.kind, id |-> 8, atime |-> Now0 - Days(1), mtime |-> Now0 - Days(1),
              tgt |-> <<>>])

\* the top-level entries of the playground: a directory AI-dev always, a
\* directory notes and a file todo.py sometimes
TopEntries ==
    LET a(age) == ("AI-dev" :> UsedAgo("dir", 1, age, FALSE))
        n(age) == ("notes" :> UsedAgo("dir", 2, age, TRUE))
        t(age) == ("todo.py" :> UsedAgo("file", 3, age, TRUE))
        none == [x \in {} |-> 0]
    IN [plain |-> {a(x) @@ y @@ z : x \in {Days(1), Days(30)},
                                   y \in {none, n(Days(200))},
                                   z \in {none, t(Days(1))}},
        obstructed |-> {a(Days(30)), a(Days(30)) @@ n(Days(200))}]

TreeOf(top) ==
    [p \in {Root} \cup {<<k>> : k \in DOMAIN top} |->
        IF p = Root THEN EmptyTree[Root] ELSE top[p[1]]]

InitTrees ==
    {TreeOf(top) : top \in TopEntries.plain}
    \cup {WithObstacle(TreeOf(top), o) : top \in TopEntries.obstructed, o \in Obstacles}

NoCall == Call("none", TRUE, FALSE, FALSE, TRUE, <<>>, <<>>, EmptyTree, 0)

Init ==
    /\ fs \in InitTrees
    /\ clock = Now0
    /\ config = DefaultConfig(DefaultThemeMappingsB)
    /\ thresholds = DefaultThresholds
    /\ configFile = SavedFile(config)
    /\ pc = "idle"
    /\ run = IdleRun
    /\ last = NoCall
    /\ prev = NoCall
    /\ budget = MaxCalls
    /\ probe = [op |-> "none"]

\* the bodies POST /api/config is sent
UpdateBodies ==
    {[config |-> [auto_organize |-> TRUE]],
     [thresholds |-> [current |-> 7]],
     [thresholds |-> [current |-> 200]]}

Next ==
    \/ \E d \in BOOLEAN : B_OrganizeFiles(d)
    \/ B_MoveStep
    \/ \E d \in BOOLEAN : B_OrganizeWithSymlinks(d)
    \/ B_TimeLinkStep
    \/ \E d \in BOOLEAN : B_OrganizeByTheme(d)
    \/ B_ThemeLinkStep
    \/ B_CreateSymlink
    \/ \E d \in BOOLEAN, s \in BOOLEAN : P_OrganizeByTime(d, s)
    \/ P_TimeStep
    \/ \E d \in BOOLEAN : P_OrganizeByTheme(d)
    \/ P_ThemeStep
    \/ \E m \in {"time", "theme", "both"}, x \in BOOLEAN : W_Organize(m, x)
    \/ \E data \in UpdateBodies : W_UpdateConfig(data)
    \/ W_Read
    \/ \E k \in {"file", "dir"} : EnvPlant(k)

Spec == Init /\ [][Next]_vars

----------------------------------------------------------------------------
(* Planning: dry runs and configuration updates one after the other, the clock
   advancing between them *)

InitPlan ==
    /\ fs \in InitTrees
    /\ clock = Now0
    /\ config = DefaultConfig(DefaultThemeMappingsB)
    /\ thresholds = DefaultThresholds
    /\ configFile = SavedFile(config)
    /\ pc = "idle"
    /\ run = IdleRun
    /\ last = NoCall
    /\ prev = NoCall
    /\ budget = MaxPlans
    /\ probe = [op |-> "none"]

NextPlan ==
    \/ B_OrganizeFiles(TRUE)
    \/ B_OrganizeWithSymlinks(TRUE)
    \/ B_OrganizeByTheme(TRUE)
    \/ \E s \in BOOLEAN : P_OrganizeByTime(TRUE, s)
    \/ P_OrganizeByTheme(TRUE)
    \/ \E data \in UpdateBodies : W_UpdateConfig(data)
    \/ Tick

SpecPlan == InitPlan /\ [][NextPlan]_vars

----------------------------------------------------------------------------
(* create_symlink called again and again, the clock advancing between calls *)

NextLink ==
    \/ B_CreateSymlink
    \/ Tick

SpecLink == InitPlan /\ [][NextLink]_vars

----------------------------------------------------------------------------
(* The classifiers applied to entries, thresholds, names and tables *)

\* how long before Now0 an entry was last read or written (-1: in the future)
ProbeAges ==
    {-1, 0, Days(2), Days(7), Days(7) + 1, Days(30) - 1, Days(30), Days(30) + 1,
     Days(180), Days(180) + 1, Days(365), Days(365) + 1}

\* thresholds as the environment or a config update may set them: the
\* defaults, a stricter triple, one not in ascending order, one all equal
ThresholdTriples ==
    {DefaultThresholds,
     [current |-> 7, recent |-> 30, old |-> 180],
     [current |-> 180, recent |-> 30, old |-> 365],
     [current |-> 30, recent |-> 30, old |-> 30]}

\* names of top-level entries
ProbeNames ==
    {"AI-dev", "notes", "stuff", "todo.py", "GPT-plan.md", "ai-project", "dev-tools",
     "data-pipeline", "random-stuff", "learning-course", "video-editor", "hugging_face",
     "stock-tracker", "todo-app", "todo-ai-dev", "gpt-experiment",
     "model-data.json", "dev-demo.MP4", "gpt-run.log"}
(***************************************************************************)
(* The size estimate of a directory (_estimate_directory_size): a fixed    *)
(* figure for a name that holds one of the patterns, otherwise a count of  *)
(* the children met before the scan stops.  A child is "file", "dir" or    *)
(* "other" (a dangling link, a socket): neither is_file nor is_dir.        *)
(***************************************************************************)
MaxChildren == 22

ScanLimit == 20

KB == 1024

MB == KB * KB

NameHolds(name, patterns) ==
    \E p \in patterns : Contains(Lower(Chars[name]), Chars[p])

\* the children the loop looks at: it breaks after the child that takes the
\* count of files and directories above ScanLimit
Inspected(children) ==
    LET counted(i) == Cardinality({j \in 1..i : children[j] \in {"file", "dir"}})
        stops == {i \in 1..Len(children) : counted(i) > ScanLimit}
    IN IF stops = {} THEN children
       ELSE SubSeq(children, 1, CHOOSE i \in stops : \A j \in stops : i <= j)

EstimateDirectorySize(name, children, readable) ==
    IF NameHolds(name, {"node_modules", "venv", "env", ".git"}) THEN 200 * MB
    ELSE IF NameHolds(name, {"__pycache__", ".cache", "build", "dist"}) THEN 50 * MB
    ELSE IF NameHolds(name, {"models", "hugging_face", "datasets"}) THEN 500 * MB
    ELSE IF NameHolds(name, {"test", "example", "demo"}) THEN 5 * MB
    ELSE LET seen == IF readable THEN Inspected(children) ELSE <<>>
             file_count == Cardinality({i \in 1..Len(seen) : seen[i] = "file"})
             dir_count == Cardinality({i \in 1..Len(seen) : seen[i] = "dir"})
             estimated_size == file_count * 100 * KB + dir_count * 10 * MB
         IN IF estimated_size >= MB THEN estimated_size ELSE MB

\* directories of few children and of about ScanLimit children, up to
\* MaxChildren: some subdirectories first, then perhaps a child that is neither
\* file nor directory, then files
ProbeChildren ==
    {[i \in 1..n |-> IF i <= d THEN "dir" ELSE IF o /\ i = d + 1 THEN "other" ELSE "file"] :
        n \in {0, 1, 11} \cup (ScanLimit - 1)..MaxChildren, d \in {0, 2}, o \in BOOLEAN}

EstimateSize ==
    /\ \E name \in {"notes", "node_modules", "__pycache__", "hugging_face", "dev-demo.MP4"},
          children \in ProbeChildren, readable \in BOOLEAN :
         probe' = [op |-> "size", name |-> name, children |-> children, readable |-> readable,
                   inspected |-> IF readable THEN Len(Inspected(children)) ELSE 0,
                   size |-> EstimateDirectorySize(name, children, readable)]
    /\ UNCHANGED <<fs, clock, config, thresholds, configFile, pc, run, last, prev, budget>>



InitClassify ==
    /\ fs = EmptyTree
    /\ clock = Now0
    /\ config = DefaultConfig(DefaultThemeMappingsB)
    /\ thresholds = DefaultThresholds
    /\ configFile = SavedFile(config)
    /\ pc = "idle"
    /\ run = IdleRun
    /\ last = NoCall
    /\ prev = NoCall
    /\ budget = 0
    /\ probe = [op |-> "none"]

\* the bucket of an entry with the given times under the given thresholds, as
\* B.analyze_access_patterns and P._classify_by_time compute it
ClassifyTime ==
    /\ \E a \in ProbeAges, m \in ProbeAges, th \in ThresholdTriples :
         LET st == [atime |-> Now0 - a, mtime |-> Now0 - m] IN
         probe' = [op |-> "time", atime |-> st.atime, mtime |-> st.mtime, now |-> clock,
                   thresholds |-> th,
                   bucketB |-> TimeBucketB(AgeOf(st, clock), th),
                   bucketP |-> ClassifyByTimeP(clock - LastUsed(st), th)]
    /\ UNCHANGED <<fs, clock, config, thresholds, configFile, pc, run, last, prev, budget>>

\* the theme of a name under a table, as B.detect_theme and
\* P._classify_by_theme compute it
ClassifyTheme ==
    /\ \E name \in ProbeNames, table \in ThemeTables, isfile \in BOOLEAN :
         probe' = [op |-> "theme", name |-> name, table |-> table, isfile |-> isfile,
                   themeB |-> DetectTheme(name, isfile, table),
                   themeP |-> ClassifyByThemeP(name, table)]
    /\ UNCHANGED <<fs, clock, config, thresholds, configFile, pc, run, last, prev, budget>>

NextClassify ==
    \/ ClassifyTime
    \/ ClassifyTheme
    \/ EstimateSize

SpecClassify == InitClassify /\ [][NextClassify]_vars

----------------------------------------------------------------------------
(* B: construction of the engine (__init__ and load_config), save_config, and
   analyze_access_patterns called on its own *)

\* no config file at <root>/.playground-config.json
AbsentFile == [exists |-> FALSE, parses |-> FALSE, doc |-> [k \in {} |-> 0]]

\* a config file json.load cannot parse
CorruptFile == [exists |-> TRUE, parses |-> FALSE, doc |-> [k \in {} |-> 0]]

\* self.config before load_config has run: no engine has been constructed
NoConfig == [k \in {} |-> 0]

\* load_config, lines 101-112: the keys a loaded document is completed with
RequiredDefaults ==
    [theme_mappings |-> DefaultThemeMappingsB,
     use_symlinks |-> TRUE,
     symlink_base_dir |-> "organized",
     organization_modes |-> <<"time", "theme">>]

\* a faulty variant: the defaults replace what the file says
Backfilled_Overriding(doc) == RequiredDefaults @@ doc

\* load_config, lines 101-112: "if key not in self.config: self.config[key] = default"
Backfilled(doc) == doc @@ RequiredDefaults

\* load_config, lines 100-114: config_updated
ConfigUpdated(doc) == ~(DOMAIN RequiredDefaults \subseteq DOMAIN doc)

\* open(self.config_file, 'w') succeeds when the root is a directory
CanSave(f) == IsDir(f, Root)

\* __init__: [raised, config, file] for the tree and the config file it finds.
\* json.load's error and open()'s error are caught nowhere.
Construct(f, cf) ==
    IF cf.exists
    THEN IF ~cf.parses
         THEN [raised |-> TRUE, config |-> NoConfig, file |-> cf]
         ELSE IF ~ConfigUpdated(cf.doc)
         THEN [raised |-> FALSE, config |-> cf.doc, file |-> cf]
         ELSE IF CanSave(f)
         THEN [raised |-> FALSE, config |-> Backfilled(cf.doc),
               file |-> SavedFile(Backfilled(cf.doc))]
         ELSE [raised |-> TRUE, config |-> NoConfig, file |-> cf]
    ELSE IF CanSave(f)
         THEN [raised |-> FALSE, config |-> DefaultConfig(DefaultThemeMappingsB),
               file |-> SavedFile(DefaultConfig(DefaultThemeMappingsB))]
         ELSE [raised |-> TRUE, config |-> NoConfig, file |-> cf]

\* PlaygroundOrganizer(root): a first engine, or a new one on the same root
B_Construct ==
    /\ pc \in {"new", "idle"}
    /\ budget > 0
    /\ budget' = budget - 1
    /\ LET c == Construct(fs, configFile) IN
       \* when __init__ raises, the caller keeps the engine it had, if any
       /\ config' = IF c.raised THEN config ELSE c.config
       /\ configFile' = c.file
       /\ thresholds' = DefaultThresholds
       /\ last' = Call("construct", TRUE, FALSE, c.raised, ~c.raised, <<>>, <<>>, fs, clock)
                  @@ [file |-> configFile, config |-> config]
       /\ prev' = last
       /\ pc' = IF c.raised THEN pc ELSE "idle"
       /\ run' = IdleRun
    /\ UNCHANGED <<fs, clock, probe>>

\* the values a caller stores in config before saving it
CustomSettings == {[custom_setting |-> "test_value"], [use_symlinks |-> FALSE]}

\* config[key] = value, then save_config()
B_SaveConfig(setting) ==
    /\ Begin
    /\ config' = setting @@ config
    /\ configFile' = IF CanSave(fs) THEN SavedFile(config') ELSE configFile
    /\ Return(Call("save_config", FALSE, FALSE, ~CanSave(fs), TRUE, <<>>, <<>>, fs, clock)
              @@ [file |-> configFile, config |-> config])
    /\ UNCHANGED <<fs, clock, thresholds, probe>>


\* the target of a symlink that lies below a directory the process may not
\* search: stat() on the link fails with EACCES
DeniedTarget == <<"..", "locked", "x">>

\* stat() on the path raises PermissionError
StatDenied(f, p) == IsSymlink(f, p) /\ f[p].tgt = DeniedTarget

\* a faulty variant: Path.is_dir never lets an error out
IsDirRaises_Never(f, p, strict) == FALSE

\* Path.is_dir() at line 250: it swallows ENOENT, ENOTDIR, EBADF and ELOOP; any
\* other OSError it lets out up to Python 3.13 (strict) and swallows from 3.14
IsDirRaises(f, p, strict) == strict /\ StatDenied(f, p)

\* self.config['excluded_dirs'] at line 250, evaluated when is_dir() is true
ExcludedDirsRaises(f, p, cfg) == IsDir(f, p) /\ "excluded_dirs" \notin DOMAIN cfg

EmptyAnalysis == [b \in Range(Buckets) |-> <<>>]

\* analyze_access_patterns: [raised, result]. Line 250 stands outside the inner
\* try, and the outer handler re-raises.
AnalyzeAccessPatterns(f, now, cfg, th, strict) ==
    IF ~IsDir(f, Root) THEN [raised |-> FALSE, result |-> EmptyAnalysis]
    ELSE IF \E n \in Range(Iterdir(f, Root)) :
                /\ ~SkippedHidden(n)
                /\ IsDirRaises(f, <<n>>, strict) \/ ExcludedDirsRaises(f, <<n>>, cfg)
         THEN [raised |-> TRUE, result |-> EmptyAnalysis]
         ELSE [raised |-> FALSE, result |-> AnalyzeB(f, now, cfg, th)]

\* analyze_access_patterns() called on the engine
B_Analyze(strict) ==
    /\ Begin
    /\ LET a == AnalyzeAccessPatterns(fs, clock, config, thresholds, strict) IN
       Return(Call("analyze", TRUE, FALSE, a.raised, TRUE, <<>>, <<>>, fs, clock)
              @@ [result |-> a.result, strict |-> strict, config |-> config])
    /\ UNCHANGED <<fs, clock, config, thresholds, configFile, probe>>

\* the root is removed, or replaced by a regular file, behind the engine's back
EnvRootGone(kind) ==
    /\ pc = "idle"
    /\ IsDir(fs, Root)
    /\ fs' = IF kind = "file" THEN (Root :> FileNode(7, clock, clock))
             ELSE [p \in {} |-> 0]
    /\ configFile' = AbsentFile
    /\ UNCHANGED <<clock, config, thresholds, pc, run, last, prev, probe, budget>>


----------------------------------------------------------------------------
(* Roots to construct an engine on and to analyse: no output of an earlier run,
   and children of every sort the analysis tells apart *)

\* Calls that may be made in all on one root (constructions included).
MaxSteps == 3

\* the children of the root: directories, a hidden directory, an allow-listed
\* hidden file, a directory and a regular file with excluded names, and a
\* symlink whose stat fails (dangling, or permission denied)
ScanEntries ==
    LET none == [x \in {} |-> 0]
        a == ("AI-dev" :> UsedAgo("dir", 1, Days(30), FALSE))
        n == ("notes" :> UsedAgo("dir", 2, Days(200), TRUE))
        md == ("node_modules" :> UsedAgo("dir", 4, Days(10), TRUE))
        pf == ("__pycache__" :> UsedAgo("file", 7, Days(10), TRUE))
        g == (".git" :> UsedAgo("dir", 5, Days(1), TRUE))
        i == (".gitignore" :> UsedAgo("file", 6, Days(400), FALSE))
        dangling == ("stuff" :> LinkNode(<<"random-stuff">>, Now0 - Days(3)))
        denied == ("stuff" :> LinkNode(DeniedTarget, Now0 - Days(3)))
    IN {v @@ w @@ x @@ y @@ z :
            v \in {none, a}, w \in {none, n}, x \in {none, md, md @@ pf},
            y \in {none, g, g @@ i}, z \in {none, dangling, denied}}

ScanTrees == {TreeOf(top) : top \in ScanEntries}

\* a root that does not exist, and a root that is a regular file
BadRoots == {[p \in {} |-> 0], (Root :> FileNode(7, Now0 - Days(1), Now0 - Days(1)))}

\* the config files an engine may find: none, the one an earlier engine saved,
\* a hand-edited one (no excluded_dirs, a key the engine does not know), one
\* written before the four later keys existed, and one that does not parse
ConfigFiles ==
    {AbsentFile,
     SavedFile(DefaultConfig(DefaultThemeMappingsB)),
     SavedFile([use_symlinks |-> FALSE, mine |-> "kept"]),
     SavedFile([tracking_enabled |-> TRUE, auto_organize |-> FALSE,
                excluded_dirs |-> <<"notes">>, last_organized |-> "None"]),
     CorruptFile}

InitEngine ==
    /\ fs \in ScanTrees \cup BadRoots
    /\ configFile \in IF IsDir(fs, Root) THEN ConfigFiles ELSE {AbsentFile}
    /\ clock = Now0
    /\ config = NoConfig
    /\ thresholds = DefaultThresholds
    /\ pc = "new"
    /\ run = IdleRun
    /\ last = NoCall
    /\ prev = NoCall
    /\ budget = MaxSteps
    /\ probe = [op |-> "none"]

NextEngine ==
    \/ B_Construct
    \/ \E s \in CustomSettings : B_SaveConfig(s)
    \/ \E strict \in BOOLEAN : B_Analyze(strict)
    \/ \E k \in {"gone", "file"} : EnvRootGone(k)

SpecEngine == InitEngine /\ [][NextEngine]_vars

----------------------------------------------------------------------------
(* Theme mode executed on a root that holds no output of an earlier run *)

\* the roots whose every child can be stat'ed or is a dangling link
ThemeTrees == {f \in ScanTrees : ~StatDenied(f, <<"stuff">>)}

InitTheme ==
    /\ fs \in ThemeTrees
    /\ clock = Now0
    /\ config = DefaultConfig(DefaultThemeMappingsB)
    /\ thresholds = DefaultThresholds
    /\ configFile = SavedFile(config)
    /\ pc = "idle"
    /\ run = IdleRun
    /\ last = NoCall
    /\ prev = NoCall
    /\ budget = MaxCalls
    /\ probe = [op |-> "none"]

NextTheme ==
    \/ B_OrganizeByTheme(FALSE)
    \/ B_ThemeLinkStep
    \/ P_OrganizeByTheme(FALSE)
    \/ P_ThemeStep

SpecTheme == InitTheme /\ [][NextTheme]_vars



(***************************************************************************)
(* Executed runs one after the other: what `--both --execute` does (the    *)
(* time pass, then the theme pass, on what the time pass left), and what a *)
(* user does who runs the organizer again on a later day.                  *)
(***************************************************************************)
NextRuns ==
    \/ B_OrganizeFiles(FALSE)
    \/ B_MoveStep
    \/ B_OrganizeWithSymlinks(FALSE)
    \/ B_TimeLinkStep
    \/ B_OrganizeByTheme(FALSE)
    \/ B_ThemeLinkStep
    \/ \E s \in BOOLEAN : P_OrganizeByTime(FALSE, s)
    \/ P_TimeStep
    \/ P_OrganizeByTheme(FALSE)
    \/ P_ThemeStep
    \/ Tick

SpecRuns == InitPlan /\ [][NextRuns]_vars


----------------------------------------------------------------------------
(* Properties *)

\* C1: a step of an executing loop of B (the move loop of organize_files, the
\* symlink loops) or a call of create_symlink that finds a real file or a real
\* directory at its destination, there since planning or put there since, is
\* skipped: the tree is left as it was, destination and source alike, the step
\* is logged as skipped or refused, and no exception reaches the caller.
C1_RealDestinationSkipped ==
    [][/\ (/\ pc \in {"organize_files", "organize_with_symlinks", "organize_by_theme"}
           /\ run.queue # <<>>
           /\ RealAt(fs, Head(run.queue).dst))
          => /\ fs' = fs
             /\ LET log == IF pc' = "idle" THEN last'.log ELSE run'.log IN
                log[Len(log)].outcome \in {"skipped", "refused"}
             /\ pc' = "idle" => ~last'.raised
       /\ (/\ pc = "idle" /\ pc' = "idle" /\ budget' < budget
           /\ last'.op = "create_symlink"
           /\ RealAt(fs, last'.log[1].dst))
          => /\ fs' = fs
             /\ ~last'.ok
             /\ ~last'.raised]_vars

\* C1, its case: organize_files has returned after skipping an entry whose
\* destination was free when the moves were planned and held a real file or
\* directory when the loop came to it; the source is still in its place.
C1_RaceSkipped ==
    /\ last.op = "organize_files"
    /\ ~last.raised
    /\ \E i \in DOMAIN last.log :
         /\ last.log[i].found \in {"file", "dir"}
         /\ last.log[i].outcome = "skipped"
         /\ ~Lexists(last.pre, last.log[i].dst)
         /\ RealAt(fs, last.log[i].dst)
         /\ Lexists(fs, last.log[i].src)

\* C2: a call of an organize operation asked to run dry returns at once and
\* leaves the tree and the config file exactly as they were.
C2_DryRunChangesNothing ==
    [][(/\ budget' < budget
        /\ IF pc' = "idle"
           THEN /\ last'.dry
                /\ last'.op \in {"organize_files", "organize_with_symlinks", "organize_by_theme",
                                 "p_organize_by_time", "p_organize_by_theme"}
           ELSE run'.dry)
       => /\ pc' = "idle"
          /\ fs' = fs
          /\ configFile' = configFile]_vars

\* C2, its case: a dry run of the symlink planner has reported at least two
\* links to make, and the tree is the tree the call began with.
C2_DryRunPlanned ==
    /\ last.op = "organize_with_symlinks"
    /\ last.dry
    /\ Len(last.actions) >= 2
    /\ fs = last.pre
    /\ ~Lexists(fs, <<"organized">>)

\* C3: the bucket of an entry is the first of current, recent, old whose
\* threshold, in days, is not below the age now - max(atime, mtime), and archive
\* when the age is above all three; an age equal to a threshold is within it.
\* Both engines compute it so, whatever the three thresholds are.
C3_BucketCascade ==
    probe.op = "time" =>
        LET used == IF probe.atime > probe.mtime THEN probe.atime ELSE probe.mtime
            age == probe.now - used
            th == probe.thresholds
            bucket == CASE age <= th.current * 86400 -> "current"
                        [] age > th.current * 86400 /\ age <= th.recent * 86400 -> "recent"
                        [] age > th.current * 86400 /\ age > th.recent * 86400
                           /\ age <= th.old * 86400 -> "old"
                        [] OTHER -> "archive"
        IN /\ probe.bucketB = bucket
           /\ probe.bucketP = bucket

\* C3, its case: an entry whose modification time, the later of its two times,
\* lies exactly thresholds.current days back is classified current.
C3_OnTheThreshold ==
    /\ probe.op = "time"
    /\ probe.atime < probe.mtime
    /\ probe.now - probe.mtime = probe.thresholds.current * 86400
    /\ probe.bucketB = "current"
    /\ probe.bucketP = "current"

\* C4 (as amended): for a directory name both engines return the first theme
\* of the table, misc passed over wherever it sits, that has a keyword occurring
\* in the lowercased name, and misc when no such theme has one; so a name that
\* holds an ai keyword and a development keyword is classified ai when ai stands
\* before development and no theme standing before ai has a keyword in the name.
C4_FirstMatchingTheme ==
    (probe.op = "theme" /\ ~probe.isfile) =>
        LET table == probe.table
            lowered == Lower(Chars[probe.name])
            Hit(i) == /\ table[i].theme # "misc"
                      /\ \E k \in DOMAIN table[i].keywords :
                           Contains(lowered, Chars[table[i].keywords[k]])
            Has(theme) == \E i \in DOMAIN table : table[i].theme = theme
            Place(theme) == CHOOSE i \in DOMAIN table : table[i].theme = theme
            Right(theme) ==
                /\ (theme = "misc") <=> (\A i \in DOMAIN table : ~Hit(i))
                /\ theme # "misc" =>
                     \E i \in DOMAIN table :
                        /\ table[i].theme = theme
                        /\ Hit(i)
                        /\ \A j \in 1..(i - 1) : ~Hit(j)
                /\ (/\ Has("ai") /\ Has("development")
                    /\ Hit(Place("ai")) /\ Hit(Place("development"))
                    /\ Place("ai") < Place("development")
                    /\ \A j \in 1..(Place("ai") - 1) : ~Hit(j))
                   => theme = "ai"
        IN Right(probe.themeB) /\ Right(probe.themeP)

\* C4, its case: under B's default table, where ai stands first, the directory
\* AI-dev, whose name holds the ai keyword "ai-" and the development keyword
\* "dev", is classified ai.
C4_AiBeforeDevelopment ==
    /\ probe.op = "theme"
    /\ ~probe.isfile
    /\ probe.name = "AI-dev"
    /\ probe.table = DefaultThemeMappingsB
    /\ probe.themeB = "ai"
    /\ probe.themeP = "ai"

\* C4 as stated: first match, and a name that holds an ai keyword and a
\* development keyword is classified ai whenever ai stands before development.
C4_AiWheneverBeforeDevelopment ==
    (probe.op = "theme" /\ ~probe.isfile) =>
        LET table == probe.table
            lowered == Lower(Chars[probe.name])
            Hit(i) == /\ table[i].theme # "misc"
                      /\ \E k \in DOMAIN table[i].keywords :
                           Contains(lowered, Chars[table[i].keywords[k]])
            Has(theme) == \E i \in DOMAIN table : table[i].theme = theme
            Place(theme) == CHOOSE i \in DOMAIN table : table[i].theme = theme
        IN (/\ Has("ai") /\ Has("development")
            /\ Hit(Place("ai")) /\ Hit(Place("development"))
            /\ Place("ai") < Place("development"))
           => (probe.themeB = "ai" /\ probe.themeP = "ai")

\* C5: in time mode the plan holds, for every entry whose destination exists, a
\* skip action and no move or symlink action, and for every other entry one
\* move or symlink action.
C5_TimePlanSkipsExisting ==
    (/\ last.op \in {"organize_with_symlinks", "p_organize_by_time"}
     /\ last.dry
     /\ ~last.raised) =>
        \A i \in DOMAIN last.actions :
            LET a == last.actions[i]
                dst == IF last.op = "organize_with_symlinks"
                       THEN <<config.symlink_base_dir, "by-time", a.into, a.name>>
                       ELSE <<a.into, a.name>>
            IN a.into \in Range(Buckets) =>
                 /\ Exists(last.pre, dst) => a.kind = "SKIP (exists)"
                 /\ ~Exists(last.pre, dst) =>
                      a.kind \in {"Would move", "Would symlink", "Create symlink"}
                 /\ \A j \in DOMAIN last.actions :
                      (last.actions[j].name = a.name /\ last.actions[j].into = a.into) => j = i

\* C6: in theme mode the plan holds a skip action, not a symlink action, for an
\* entry whose destination is a real directory.
C6_ThemePlanSkipsRealDirectory ==
    (/\ last.op \in {"organize_by_theme", "p_organize_by_theme"}
     /\ last.dry
     /\ ~last.raised) =>
        \A i \in DOMAIN last.actions :
            LET a == last.actions[i]
                dst == <<"organized", "by-theme", a.into, a.name>>
            IN (a.into # "" /\ RealAt(last.pre, dst) /\ last.pre[dst].kind = "dir")
               => a.kind = "SKIP (exists)"

\* C7: an executing run returns normally, with every entry it planned
\* attempted, whatever fails on the way.
C7_FailureNeverStopsTheRun ==
    (/\ last.op \in {"organize_files", "organize_with_symlinks", "organize_by_theme"}
     /\ ~last.dry) =>
        /\ ~last.raised
        /\ last.op # "organize_files" => Len(last.log) = Len(last.actions)

\* C8: create_symlink called on a target that is a symlink, wherever it points
\* and dangling or not, returns True and leaves the target a symlink made anew
\* that resolves to the source; called again with the same arguments it
\* returns True again and leaves the tree, timestamps aside, as the first call
\* left it.
C8_SymlinkReplaced ==
    LET src == last.log[1].src
        dst == last.log[1].dst
        Shape(f) == [p \in DOMAIN f |-> [kind |-> f[p].kind, tgt |-> f[p].tgt]]
        again == CreateSymlink(fs, src, dst, clock)
    IN /\ (last.op = "create_symlink" /\ IsSymlink(last.pre, dst)) =>
            /\ last.ok
            /\ ~last.raised
            /\ IsSymlink(fs, dst)
            /\ fs[dst].tgt = src
            /\ fs[dst].mtime = last.now
            /\ Shape(fs) = [Shape(last.pre) EXCEPT ![dst] = [kind |-> "link", tgt |-> src]]
            /\ again.ret
            /\ Shape(again.fs) = Shape(fs)
       /\ (/\ last.op = "create_symlink" /\ prev.op = "create_symlink"
           /\ prev.log[1].src = src /\ prev.log[1].dst = dst
           /\ prev.ok) =>
            /\ last.ok
            /\ Shape(fs) = Shape(last.pre)

\* C8, its case: create_symlink has been called twice with the same source
\* and target, the first call having found there a symlink to another place.
C8_CalledTwice ==
    /\ last.op = "create_symlink"
    /\ prev.op = "create_symlink"
    /\ prev.log[1].src = last.log[1].src
    /\ prev.log[1].dst = last.log[1].dst
    /\ IsSymlink(prev.pre, prev.log[1].dst)
    /\ prev.pre[prev.log[1].dst].tgt # prev.log[1].src
    /\ last.ok
    /\ prev.now < last.now

\* C9 (as amended): two dry runs of a time planner made one after the other on
\* the same tree with the same config return the same actions in the same
\* order, provided no top-level entry's age has crossed a threshold between
\* the two clock readings; and neither call changes the tree.
C9_SamePlanWhileBucketsStay ==
    (/\ last.op \in {"organize_with_symlinks", "p_organize_by_time"}
     /\ prev.op = last.op
     /\ last.dry /\ prev.dry
     /\ last.symlinks = prev.symlinks) =>
        LET days == {thresholds[b] : b \in DOMAIN thresholds}
                    \cup {DefaultThresholds[b] : b \in DOMAIN DefaultThresholds}
            tops == {p \in DOMAIN fs : Len(p) = 1}
            Used(p) == IF fs[p].atime > fs[p].mtime THEN fs[p].atime ELSE fs[p].mtime
            stay == \A p \in tops : \A d \in days :
                        (prev.now - Used(p) <= d * 86400) <=> (last.now - Used(p) <= d * 86400)
        IN /\ prev.pre = fs
           /\ last.pre = fs
           /\ stay => last.actions = prev.actions

\* C9, its case: the stand-alone engine has planned twice, the clock having
\* advanced in between, and has returned the same two or more actions.
C9_PlannedTwice ==
    /\ last.op = "p_organize_by_time"
    /\ prev.op = "p_organize_by_time"
    /\ last.dry /\ prev.dry
    /\ last.symlinks = prev.symlinks
    /\ prev.now < last.now
    /\ last.actions = prev.actions
    /\ Len(last.actions) >= 2

\* C9 as stated: two dry runs of a time planner made one after the other on
\* the same tree with the same config return the same actions.
C9_SamePlanAlways ==
    (/\ last.op \in {"organize_with_symlinks", "p_organize_by_time"}
     /\ prev.op = last.op
     /\ last.dry /\ prev.dry
     /\ last.symlinks = prev.symlinks) =>
        /\ prev.pre = fs
        /\ last.pre = fs
        /\ last.actions = prev.actions

\* C10: no request to the web server changes the tree or a file in it, the
\* config file included, and an organize request runs the engine dry and
\* answers executed = false whatever its body asks.
C10_WebChangesNothing ==
    [][(/\ budget' < budget
        /\ pc' = "idle"
        /\ last'.op \in {"web_organize", "web_update_config", "web_read"})
       => /\ fs' = fs
          /\ configFile' = configFile
          /\ last'.op = "web_organize" => (last'.dry /\ ~last'.executed)]_vars


\* the names in the buckets of an analysis result
NamesIn(result) == {e.name : e \in Range(Flatten(result))}

\* C11: an analysis that returns holds, in no bucket, a directory whose name is
\* in the configured excluded_dirs; a regular file whose name is in that list,
\* that is not hidden and whose stat succeeds, is in the result.
C11_ExcludedDirectoriesOnly ==
    (last.op = "analyze" /\ ~last.raised /\ IsDir(last.pre, Root)) =>
        \A n \in Range(Iterdir(last.pre, Root)) :
            ("excluded_dirs" \in DOMAIN last.config
             /\ n \in Range(last.config.excluded_dirs)) =>
                /\ IsDir(last.pre, <<n>>) => n \notin NamesIn(last.result)
                /\ (IsFile(last.pre, <<n>>) /\ ~StartsWithDot(n)) => n \in NamesIn(last.result)

\* C11 witness: the root analysed holds an excluded directory and a regular
\* file with an excluded name, and other entries were classified
C11_ExcludedDirAndFile ==
    /\ last.op = "analyze" /\ ~last.raised
    /\ IsDir(last.pre, <<"node_modules">>)
    /\ IsFile(last.pre, <<"__pycache__">>)
    /\ {"node_modules", "__pycache__"} \subseteq Range(last.config.excluded_dirs)
    /\ "AI-dev" \in NamesIn(last.result)
    /\ "__pycache__" \in NamesIn(last.result)


\* C12: an analysis that returns holds a dot-prefixed name only if it is one of
\* .gitignore, .env.example, .npmignore, .dockerignore, .editorconfig,
\* .prettierrc, .eslintrc, .gitattributes; every other dot-prefixed child of the
\* root is left out, and a child with one of these names that is no excluded
\* directory and whose stat succeeds is in the result.
C12_HiddenOnlyIfAllowListed ==
    (last.op = "analyze" /\ ~last.raised /\ IsDir(last.pre, Root)) =>
        \A n \in Range(Iterdir(last.pre, Root)) :
            (Chars[n][1] = ".") =>
                IF n \in {".gitignore", ".env.example", ".npmignore", ".dockerignore",
                          ".editorconfig", ".prettierrc", ".eslintrc", ".gitattributes"}
                THEN (IsFile(last.pre, <<n>>) => n \in NamesIn(last.result))
                ELSE n \notin NamesIn(last.result)

\* C12 witness: the root analysed holds .git and .gitignore, and the result
\* holds .gitignore beside an ordinary entry
C12_GitSkippedGitignoreKept ==
    /\ last.op = "analyze" /\ ~last.raised
    /\ {<<".git">>, <<".gitignore">>} \subseteq DOMAIN last.pre
    /\ {".gitignore", "AI-dev"} \subseteq NamesIn(last.result)
    /\ ".git" \notin NamesIn(last.result)


\* C13: when stat fails for a child of the root (a dangling link, or a link whose
\* target the process may not reach), the analysis does not raise, and its
\* result is the one it gives for the root without the failing children.
C13_BadChildSkippedOnly ==
    (last.op = "analyze" /\ IsDir(last.pre, Root) /\ "excluded_dirs" \in DOMAIN last.config) =>
        LET failing == {<<n>> : n \in {m \in Range(Iterdir(last.pre, Root)) :
                                          ~Exists(last.pre, <<m>>)}}
            without == [p \in (DOMAIN last.pre) \ failing |-> last.pre[p]]
        IN /\ ~last.raised
           /\ last.result = AnalyzeB(without, last.now, last.config, thresholds)


\* C14: in the result of an analysis that returns, the children of the root that
\* are not skipped as hidden, are no excluded directory and can be stat'ed stand
\* each in exactly one bucket, and the buckets hold nothing else: the four
\* bucket sizes add up to the number of these children.
C14_BucketsPartitionTheEligible ==
    (last.op = "analyze" /\ ~last.raised /\ IsDir(last.pre, Root)) =>
        LET excluded == IF "excluded_dirs" \in DOMAIN last.config
                        THEN Range(last.config.excluded_dirs) ELSE {}
            eligible == {n \in Range(Iterdir(last.pre, Root)) :
                            /\ Chars[n][1] = "." => n \in ImportantHidden
                            /\ ~(IsDir(last.pre, <<n>>) /\ n \in excluded)
                            /\ Exists(last.pre, <<n>>)}
            size(b) == Len(last.result[b])
        IN /\ \A n \in eligible :
                Cardinality({<<b, i>> \in Range(Buckets) \X (1..Cardinality(eligible)) :
                                i <= size(b) /\ last.result[b][i].name = n}) = 1
           /\ NamesIn(last.result) \subseteq eligible
           /\ size("current") + size("recent") + size("old") + size("archive")
                 = Cardinality(eligible)

\* C14 witness: three children in three buckets, beside a hidden directory, an
\* excluded directory and a link that cannot be stat'ed
C14_ThreeOfSix ==
    /\ last.op = "analyze" /\ ~last.raised
    /\ {<<".git">>, <<"node_modules">>, <<"stuff">>} \subseteq DOMAIN last.pre
    /\ IsDir(last.pre, <<"node_modules">>) /\ ~Exists(last.pre, <<"stuff">>)
    /\ Len(last.result["current"]) >= 1
    /\ Len(last.result["old"]) >= 1
    /\ Len(last.result["archive"]) >= 1
    /\ Cardinality(NamesIn(last.result)) >= 3


\* C15: analysing a root that does not exist or is no directory raises nothing
\* and returns four empty buckets, and constructing the engine on such a root
\* does not fail.
C15_BadRootGivesEmptyAnalysis ==
    /\ (last.op = "analyze" /\ ~IsDir(last.pre, Root)) =>
          /\ ~last.raised
          /\ \A b \in {"current", "recent", "old", "archive"} : last.result[b] = <<>>
    /\ (last.op = "construct" /\ ~IsDir(last.pre, Root)) => ~last.raised


\* C16: constructing the engine on a config file that parses never fails; each of
\* theme_mappings, use_symlinks, symlink_base_dir, organization_modes that the
\* file lacks gets its default, every key of the file keeps its value, the
\* completed config is written back at once, and a file that lacks none of the
\* four is not rewritten.
C16_MissingKeysFilledAndSaved ==
    [][(last'.op = "construct" /\ budget' = budget - 1
        /\ configFile.exists /\ configFile.parses) =>
          LET doc == configFile.doc
              four == {"theme_mappings", "use_symlinks", "symlink_base_dir",
                       "organization_modes"}
              missing == four \ DOMAIN doc
          IN /\ ~last'.raised
             /\ DOMAIN config' = (DOMAIN doc) \cup four
             /\ \A k \in DOMAIN doc : config'[k] = doc[k]
             /\ "theme_mappings" \in missing => config'.theme_mappings = DefaultThemeMappingsB
             /\ "use_symlinks" \in missing => config'.use_symlinks = TRUE
             /\ "symlink_base_dir" \in missing => config'.symlink_base_dir = "organized"
             /\ "organization_modes" \in missing =>
                   config'.organization_modes = <<"time", "theme">>
             /\ IF missing = {} THEN configFile' = configFile
                ELSE configFile' = [exists |-> TRUE, parses |-> TRUE, doc |-> config']]_vars

\* C16 witness: the engine was constructed on a hand-edited file that sets
\* use_symlinks and lacks the three other keys; the file's values are kept and
\* the completed config has been written back
C16_HandEditedFileCompleted ==
    /\ last.op = "construct" /\ ~last.raised
    /\ last.file.exists /\ last.file.parses
    /\ "use_symlinks" \in DOMAIN last.file.doc
    /\ "theme_mappings" \notin DOMAIN last.file.doc
    /\ config.use_symlinks = FALSE /\ config.mine = "kept"
    /\ config.theme_mappings = DefaultThemeMappingsB
    /\ configFile # last.file /\ configFile.doc = config


\* C17: an engine constructed on a config file that was saved or edited by hand
\* has every key of the file with the file's value, has every key of the
\* documented config (excluded_dirs among them), the absent ones with their
\* defaults, and its later analysis does not fail on a missing key.
C17_SavedConfigComesBackComplete ==
    [][/\ (last'.op = "construct" /\ budget' = budget - 1
           /\ configFile.exists /\ configFile.parses) =>
             /\ ~last'.raised
             /\ \A k \in DOMAIN configFile.doc : config'[k] = configFile.doc[k]
             /\ \A k \in {"tracking_enabled", "auto_organize", "excluded_dirs",
                          "last_organized", "use_symlinks", "symlink_base_dir",
                          "theme_mappings", "organization_modes"} :
                   /\ k \in DOMAIN config'
                   /\ k \notin DOMAIN configFile.doc =>
                         config'[k] = DefaultConfig(DefaultThemeMappingsB)[k]
       /\ (last'.op = "analyze" /\ ~last'.strict) => ~last'.raised]_vars


\* C18: constructing the engine on a config file that exists and does not parse
\* does not fail: the engine holds the default settings, and the file is left
\* as it was.
C18_CorruptFileFallsBackToDefaults ==
    [][(last'.op = "construct" /\ budget' = budget - 1
        /\ configFile.exists /\ ~configFile.parses) =>
          /\ ~last'.raised
          /\ config' = DefaultConfig(DefaultThemeMappingsB)
          /\ configFile' = configFile]_vars


\* C19: no step of theme mode, of either engine, moves, renames, deletes or
\* alters anything outside <symlink_base_dir>/by-theme: every path outside it
\* stays with its node unchanged (the root and the base directory keep their
\* kind), and whatever the step creates is a directory or a symlink at or below
\* by-theme, or the base directory by-theme is made in.
C19_ThemeModeTouchesOnlyItsOutput ==
    [][(\/ /\ pc \in {"organize_by_theme", "p_organize_by_theme"}
           /\ ~(run'.planted /\ ~run.planted)
        \/ /\ pc = "idle" /\ budget' = budget - 1
           /\ \/ pc' \in {"organize_by_theme", "p_organize_by_theme"}
              \/ /\ pc' = "idle"
                 /\ last'.op \in {"organize_by_theme", "p_organize_by_theme"}) =>
          LET out == <<"organized", "by-theme">> IN
          /\ \A p \in DOMAIN fs :
                ~IsPrefix(out, p) =>
                    /\ p \in DOMAIN fs'
                    /\ IF p \in {Root, <<"organized">>}
                       THEN fs'[p].kind = fs[p].kind /\ fs'[p].id = fs[p].id
                       ELSE fs'[p] = fs[p]
          /\ \A p \in (DOMAIN fs') \ (DOMAIN fs) :
                /\ IsPrefix(out, p) \/ p = <<"organized">>
                /\ fs'[p].kind \in {"dir", "link"}]_vars

\* C19 witness: theme mode was executed on a root with two directories; both
\* were linked, and both are where they were
C19_TwoLinkedNothingMoved ==
    /\ last.op = "organize_by_theme" /\ ~last.dry /\ ~last.raised
    /\ Len(last.log) = 2
    /\ \A i \in 1..2 : /\ last.log[i].outcome = "linked"
                       /\ IsSymlink(fs, last.log[i].dst)
                       /\ fs[last.log[i].src] = last.pre[last.log[i].src]


\* C20: after theme mode was executed on a root without output of an earlier
\* run, organized/by-theme is a directory, and for every directory d of the
\* root that is neither hidden nor excluded, with theme t, organized/by-theme/t
\* is a directory and organized/by-theme/t/d a symlink to d.
C20_EveryDirectoryLinkedUnderItsTheme ==
    (last.op \in {"organize_by_theme", "p_organize_by_theme"} /\ ~last.dry) =>
        LET base == <<"organized", "by-theme">> IN
        /\ IsDir(fs, base)
        /\ \A d \in {n \in Range(Iterdir(last.pre, Root)) :
                        /\ IsDir(last.pre, <<n>>)
                        /\ Chars[n][1] # "."
                        /\ n \notin Range(config.excluded_dirs)} :
              LET t == NameTheme(d, config.theme_mappings) IN
              /\ IsDir(fs, base \o <<t>>)
              /\ IsSymlink(fs, base \o <<t, d>>)
              /\ fs[base \o <<t, d>>].tgt = <<d>>


\* C21: under the default theme tables the directory names ai-project,
\* gpt-experiment, stock-tracker, todo-app, data-pipeline, video-editor,
\* dev-tools, learning-course and random-stuff are classified ai, ai, stocks,
\* productivity, data, media, development, learning and misc; and an entry last
\* used 2 days ago falls, under the default thresholds, in the bucket current.
C21_DefaultClassification ==
    LET expected == ("ai-project" :> "ai") @@ ("gpt-experiment" :> "ai")
                    @@ ("stock-tracker" :> "stocks") @@ ("todo-app" :> "productivity")
                    @@ ("data-pipeline" :> "data") @@ ("video-editor" :> "media")
                    @@ ("dev-tools" :> "development") @@ ("learning-course" :> "learning")
                    @@ ("random-stuff" :> "misc")
    IN /\ (probe.op = "theme" /\ ~probe.isfile /\ probe.name \in DOMAIN expected) =>
            /\ probe.table = DefaultThemeMappingsB => probe.themeB = expected[probe.name]
            /\ probe.table = DefaultThemeMappingsP => probe.themeP = expected[probe.name]
       /\ (probe.op = "time"
           /\ probe.thresholds = [current |-> 30, recent |-> 180, old |-> 365]
           /\ \/ (probe.atime = probe.now - 2 * 86400 /\ probe.mtime <= probe.atime)
              \/ (probe.mtime = probe.now - 2 * 86400 /\ probe.atime <= probe.mtime)) =>
            probe.bucketB = "current" /\ probe.bucketP = "current"

\* C21 witness: learning-course, whose keyword stands last but one in the table
\* and not at the head of its theme's list, was classified learning
C21_LearningCourse ==
    /\ probe.op = "theme" /\ ~probe.isfile
    /\ probe.name = "learning-course"
    /\ probe.table = DefaultThemeMappingsB
    /\ probe.themeB = "learning"


\* C22: on one tree and one configuration, what a dry run reports for an entry
\* is what executing does with it: would-move or would-symlink exactly when the
\* change is applied, skip exactly when executing skips, and no entry reported
\* as would-move or would-symlink ends skipped, refused or in an error.
\* (the backend's report of an executing run is the list its dry run returns;
\* the script's dry run reports a skip exactly when the destination exists)
C22_DryRunForetellsExecution ==
    (/\ last.op \in {"organize_with_symlinks", "p_organize_by_time"}
     /\ ~last.dry
     /\ ~last.raised) =>
        \A i \in DOMAIN last.log :
            LET e == last.log[i]
                wouldSkip ==
                    IF last.op = "p_organize_by_time"
                    THEN SkipExistingP(last.pre, e.dst)
                    ELSE \E j \in DOMAIN last.actions :
                            /\ last.actions[j].kind = "SKIP (exists)"
                            /\ last.actions[j].name = e.dst[Len(e.dst)]
                            /\ last.actions[j].into = e.dst[Len(e.dst) - 1]
            IN e.found = Found(last.pre, e.dst) =>
                 /\ wouldSkip <=> e.outcome \in {"skipped", "refused"}
                 /\ ~wouldSkip => e.outcome \in {"moved", "linked"}


\* C23: in every reachable state of the engine, after construction and after
\* any configuration update, the thresholds are strictly ascending:
\* current < recent < old.
C23_ThresholdsAscending ==
    /\ thresholds.current < thresholds.recent
    /\ thresholds.recent < thresholds.old


\* C24: in both mode the time pass runs first and the theme pass second, and
\* the time pass does not change what the theme pass links: the theme pass
\* handles exactly the entries, with the destinations, that theme mode alone
\* handles on the tree the time pass started from.
C24_TimePassLeavesThemePassAlone ==
    (/\ \/ last.op = "organize_by_theme" /\ prev.op = "organize_with_symlinks"
        \/ last.op = "p_organize_by_theme" /\ prev.op = "p_organize_by_time"
     /\ ~last.dry /\ ~prev.dry
     /\ ~last.raised /\ ~prev.raised
     /\ last.now = prev.now) =>
        LET doc == LoadConfigP(configFile)
            alone == IF last.op = "organize_by_theme"
                     THEN ThemeLinksOf(prev.pre, config)
                     ELSE ThemeItemsP(AnalyzeDirectoriesP(prev.pre, prev.now, doc),
                                      ThemeMappingsP(doc))
        IN {<<e.src, e.dst>> : e \in Range(last.log)}
             = {<<it.src, it.dst>> : it \in Range(alone)}


\* C25: a regular file whose extension stands in one of the fixed extension
\* tables gets that table's theme whatever keywords its name holds; the
\* keyword scan of the name decides only for directories and for files whose
\* extension is in no table.
C25_ExtensionBeforeKeywords ==
    probe.op = "theme" =>
        LET byExtension == ("todo.py" :> "development") @@ ("GPT-plan.md" :> "learning")
                           @@ ("model-data.json" :> "data") @@ ("dev-demo.MP4" :> "media")
        IN IF probe.isfile /\ probe.name \in DOMAIN byExtension
           THEN probe.themeB = byExtension[probe.name]
           ELSE probe.themeB = NameTheme(probe.name, probe.table)

\* C25 witness: the file GPT-plan.md, whose name holds the ai keyword gpt, was
\* classified learning by its extension
C25_GptPlanIsLearning ==
    /\ probe.op = "theme" /\ probe.isfile
    /\ probe.name = "GPT-plan.md"
    /\ NameTheme(probe.name, probe.table) = "ai"
    /\ probe.themeB = "learning"


\* C26: for every entry, file or directory, and every configuration, the theme
\* returned is a key of the configured theme_mappings table or "misc".
C26_ThemeIsAKeyOrMisc ==
    probe.op = "theme" =>
        LET keys == {probe.table[k].theme : k \in 1..Len(probe.table)} \cup {"misc"}
        IN probe.themeB \in keys /\ probe.themeP \in keys


\* C27: for a directory whose name holds none of the patterns, the estimate
\* looks at no more than the first 20 children and equals
\* max(files * 100 KB + subdirectories * 10 MB, 1 MB) over them; it is never
\* below 1 MB.
C27_EstimateFromFirstTwenty ==
    (probe.op = "size" /\ probe.readable /\ probe.name = "notes") =>
        LET n == IF Len(probe.children) <= 20 THEN Len(probe.children) ELSE 20
            files == Cardinality({i \in 1..n : probe.children[i] = "file"})
            subdirs == Cardinality({i \in 1..n : probe.children[i] = "dir"})
            sum == files * 100 * 1024 + subdirs * 10 * 1024 * 1024
        IN /\ probe.inspected <= 20
           /\ probe.size = IF sum >= 1024 * 1024 THEN sum ELSE 1024 * 1024
           /\ probe.size >= 1024 * 1024


\* C28: a directory the organizer made itself (a bucket directory, its output
\* base) is never taken as an entry by a later run, and executing time mode a
\* second time, nothing having changed since the first run, moves nothing
\* and creates no new link.
C28_SecondRunDoesNothing ==
    (/\ last.op = prev.op
     /\ last.op \in {"organize_files", "organize_with_symlinks"}
     /\ ~last.dry /\ ~prev.dry
     /\ ~last.raised /\ ~prev.raised
     /\ last.now = prev.now) =>
        \A i \in DOMAIN last.log :
            LET e == last.log[i] IN
            /\ (e.src \in {<<Buckets[b]>> : b \in DOMAIN Buckets} \cup {<<config.symlink_base_dir>>})
                 => Lexists(prev.pre, e.src)
            /\ e.outcome # "moved"
            /\ ~(e.outcome = "linked" /\ e.found = "none")


\* C30: after any sequence of executed organize_with_symlinks runs, with time
\* passing between them, an entry of the root is linked from at most one
\* bucket directory below <symlink_base_dir>/by-time.
C30_LinkedFromOneBucket ==
    \A n \in {p[1] : p \in {q \in DOMAIN fs : Len(q) = 1}} :
        Cardinality({b \in DOMAIN Buckets :
                        LET at == <<config.symlink_base_dir, "by-time", Buckets[b], n>> IN
                        /\ Lexists(fs, at)
                        /\ fs[at].kind = "link"
                        /\ fs[at].tgt = <<n>>}) <= 1


====
